---- MODULE Spec2Model ----
(***************************************************************************)
(* A model of josephrocca/is-vpn.                                          *)
(*                                                                         *)
(*   src/unnamed/part_001  the indexed module (IPv4 + IPv6, bucketed)       *)
(*   src/mod.js            the interval-tree module (IPv4 only)            *)
(*   src/unnamed/part_000  the linear-scan module (IPv4 only)              *)
(*                                                                         *)
(* Text is a sequence of character codes (what charCodeAt returns).        *)
(* A JavaScript number that is an integer is the pair <<hi, lo>> with      *)
(* value hi * 65536 + lo, 0 <= lo < 65536 and hi any integer: the 32-bit   *)
(* words of the program keep their width, and a signed result (hi < 0) is  *)
(* told from an unsigned one (hi >= 32768).                                *)
(***************************************************************************)
EXTENDS Integers, Sequences, FiniteSets, TLC

VARIABLES
    ipv4Index,   \* part_001: the active IPv4 index
    ipv6Index,   \* part_001: the active IPv6 index
    pc,          \* part_001: where the module's evaluation / updateList stands
    body4,       \* part_001: ipv4CidrRanges, held while the IPv6 fetch is awaited
    itree,       \* mod.js: the itree variable
    tlines,      \* mod.js: ipv4CidrRanges of batchInsertRanges
    tindex,      \* mod.js: index of batchInsertRanges
    refreshes,   \* how many times updateList has been called
    cidrs,       \* the lists given to the index builders
    subject,     \* the address whose texts are parsed
    answer,      \* the last isVpn call: its argument, what it returned, and when
    history      \* what is remembered of the refreshes, to state the claims

vars == <<ipv4Index, ipv6Index, pc, body4, itree, tlines, tindex, refreshes,
          cidrs, subject, answer, history>>

----------------------------------------------------------------------------
(* JavaScript integers as <<hi, lo>> pairs                                  *)

Half == 65536

Num(hi, lo) == <<hi, lo>>

Zero == <<0, 0>>

\* 0xFFFFFFFF
AllOnes == <<65535, 65535>>

NumOfInt(n) == <<n \div Half, n % Half>>

NumLt(a, b) == a[1] < b[1] \/ (a[1] = b[1] /\ a[2] < b[2])

NumLe(a, b) == a = b \/ NumLt(a, b)

NumGt(a, b) == NumLt(b, a)

\* x + n for a small non-negative n
NumAdd(a, n) == <<a[1] + ((a[2] + n) \div Half), (a[2] + n) % Half>>

\* ToUint32: x >>> 0
ToUint32(a) == <<a[1] % Half, a[2]>>

\* ToInt32: what the bitwise operators return
ToInt32(a) ==
    LET u == ToUint32(a)
    IN  IF u[1] >= 32768 THEN <<u[1] - Half, u[2]>> ELSE u

\* the bitwise AND of two numbers below 2^bits
RECURSIVE AndBits(_, _, _)
AndBits(a, b, bits) ==
    IF bits = 0 THEN 0
    ELSE 2 * AndBits(a \div 2, b \div 2, bits - 1) + (IF a % 2 = 1 /\ b % 2 = 1 THEN 1 ELSE 0)

NibbleAnd == [x \in 0..15 |-> [y \in 0..15 |-> AndBits(x, y, 4)]]

\* the bitwise AND and OR of two 16-bit halves, nibble by nibble
And16(a, b) ==
    NibbleAnd[a % 16][b % 16]
    + 16 * NibbleAnd[(a \div 16) % 16][(b \div 16) % 16]
    + 256 * NibbleAnd[(a \div 256) % 16][(b \div 256) % 16]
    + 4096 * NibbleAnd[a \div 4096][b \div 4096]

Or16(a, b) == a + b - And16(a, b)

\* a & b
BitAnd(a, b) ==
    LET x == ToUint32(a)
        y == ToUint32(b)
    IN  ToInt32(<<And16(x[1], y[1]), And16(x[2], y[2])>>)

\* a | b
BitOr(a, b) ==
    LET x == ToUint32(a)
        y == ToUint32(b)
    IN  ToInt32(<<Or16(x[1], y[1]), Or16(x[2], y[2])>>)

\* ~a
BitNot(a) ==
    LET x == ToUint32(a)
    IN  ToInt32(<<65535 - x[1], 65535 - x[2]>>)

\* the low 32 bits of u * 2^k, 0 <= k < 32
ShlBits(u, k) ==
    IF k < 16
    THEN <<(u[1] * 2^k + ((u[2] * 2^k) \div Half)) % Half, (u[2] * 2^k) % Half>>
    ELSE <<(u[2] * 2^(k - 16)) % Half, 0>>

\* a << k: the shift count is taken modulo 32
Shl(a, k) == ToInt32(ShlBits(ToUint32(a), k % 32))

\* a >>> 16 and a & 0xFFFF of an unsigned 32-bit a
High16(a) == a[1]

Low16(a) == a[2]

----------------------------------------------------------------------------
(* Text                                                                     *)

RECURSIVE DecDigits(_)
DecDigits(n) ==
    IF n < 10 THEN <<48 + n>> ELSE Append(DecDigits(n \div 10), 48 + (n % 10))

\* the text "a.b.c.d" of four octets
DottedQuad(o) ==
    DecDigits(o[1]) \o <<46>> \o DecDigits(o[2]) \o <<46>> \o DecDigits(o[3]) \o <<46>> \o DecDigits(o[4])

\* the index of the first element of s that is c, or 0
RECURSIVE IndexOf(_, _, _)
IndexOf(s, c, i) ==
    IF i > Len(s) THEN 0
    ELSE IF s[i] = c THEN i
    ELSE IndexOf(s, c, i + 1)

\* String.prototype.split(sep) for a one-character separator
RECURSIVE Split(_, _)
Split(s, sep) ==
    LET i == IndexOf(s, sep, 1)
    IN  IF i = 0 THEN <<s>>
        ELSE <<SubSeq(s, 1, i - 1)>> \o Split(SubSeq(s, i + 1, Len(s)), sep)

IsWhite(c) == c \in {9, 10, 11, 12, 13, 32}

RECURSIVE TrimLeft(_)
TrimLeft(s) ==
    IF s # <<>> /\ IsWhite(Head(s)) THEN TrimLeft(Tail(s)) ELSE s

RECURSIVE TrimRight(_)
TrimRight(s) ==
    IF s # <<>> /\ IsWhite(s[Len(s)]) THEN TrimRight(SubSeq(s, 1, Len(s) - 1)) ELSE s

\* String.prototype.trim
Trim(s) == TrimRight(TrimLeft(s))

IsDigit(c) == c >= 48 /\ c <= 57

\* the longest run of decimal digits of s from position i: the position after it
RECURSIVE DigitsEnd(_, _)
DigitsEnd(s, i) ==
    IF i <= Len(s) /\ IsDigit(s[i]) THEN DigitsEnd(s, i + 1) ELSE i

----------------------------------------------------------------------------
(* Number(text): the string-to-number conversion, for texts short enough    *)
(* that no rounding happens.  The result says whether Number.isInteger     *)
(* holds of it, its sign, and its magnitude up to MaxNumber (any larger    *)
(* magnitude is reported as MaxNumber).                                     *)

MaxNumber == 999

NaN == [int |-> FALSE, neg |-> FALSE, val |-> 0]

IntNumber(neg, v) == [int |-> TRUE, neg |-> neg, val |-> IF v > MaxNumber THEN MaxNumber ELSE v]

Saturate(v) == IF v > MaxNumber THEN MaxNumber ELSE v

\* the value of the digits s[i..j-1] in the given radix, or -1 when one is no digit
RECURSIVE RadixValue(_, _, _, _, _)
RadixValue(s, i, j, radix, acc) ==
    IF i >= j THEN acc
    ELSE LET c == s[i]
             d == IF c >= 48 /\ c <= 57 THEN c - 48
                  ELSE IF c >= 97 /\ c <= 102 THEN c - 87
                  ELSE IF c >= 65 /\ c <= 70 THEN c - 55
                  ELSE 99
         IN  IF d >= radix THEN -1
             ELSE RadixValue(s, i + 1, j, radix, Saturate(acc * radix + d))

RECURSIVE TimesTen(_, _)
TimesTen(v, k) ==
    IF k = 0 \/ v = 0 \/ v >= MaxNumber THEN Saturate(v) ELSE TimesTen(Saturate(v * 10), k - 1)

AllZeros(s) == \A i \in 1..Len(s) : s[i] = 48

HasDot(t, iEnd) == iEnd <= Len(t) /\ t[iEnd] = 46

HasExp(t, fEnd) == fEnd <= Len(t) /\ t[fEnd] \in {101, 69}

ExpSigned(t, fEnd) == HasExp(t, fEnd) /\ fEnd + 1 <= Len(t) /\ t[fEnd + 1] \in {43, 45}

ExpStart(t, fEnd) == IF ExpSigned(t, fEnd) THEN fEnd + 2 ELSE fEnd + 1

ExpValue(t, fEnd, eStart, eEnd) ==
    IF ~HasExp(t, fEnd) THEN 0
    ELSE IF ExpSigned(t, fEnd) /\ t[fEnd + 1] = 45 THEN 0 - RadixValue(t, eStart, eEnd, 10, 0)
    ELSE RadixValue(t, eStart, eEnd, 10, 0)

\* the number with the given digits, times ten to the scale
DecimalValue(neg, digits, scale) ==
    IF AllZeros(digits) THEN IntNumber(neg, 0)
    ELSE IF scale >= 0
    THEN IntNumber(neg, TimesTen(RadixValue(digits, 1, Len(digits) + 1, 10, 0), scale))
    ELSE IF 0 - scale < Len(digits)
            /\ AllZeros(SubSeq(digits, Len(digits) + scale + 1, Len(digits)))
    THEN IntNumber(neg, RadixValue(digits, 1, Len(digits) + scale + 1, 10, 0))
    ELSE NaN

DecimalExp(t, neg, digits, fracLen, fEnd, eStart, eEnd) ==
    IF digits = <<>> \/ eEnd # Len(t) + 1 \/ (HasExp(t, fEnd) /\ eEnd = eStart) THEN NaN
    ELSE DecimalValue(neg, digits, ExpValue(t, fEnd, eStart, eEnd) - fracLen)

DecimalFrac(t, neg, iEnd, fStart, fEnd) ==
    DecimalExp(t, neg, SubSeq(t, 1, iEnd - 1) \o SubSeq(t, fStart, fEnd - 1), fEnd - fStart, fEnd,
               ExpStart(t, fEnd),
               IF HasExp(t, fEnd) THEN DigitsEnd(t, ExpStart(t, fEnd)) ELSE fEnd)

DecimalInt(t, neg, iEnd) ==
    DecimalFrac(t, neg, iEnd,
                IF HasDot(t, iEnd) THEN iEnd + 1 ELSE iEnd,
                IF HasDot(t, iEnd) THEN DigitsEnd(t, iEnd + 1) ELSE iEnd)

\* StrUnsignedDecimalLiteral t (sign already removed): integer digits, fraction, exponent
DecimalLiteral(t, neg) == DecimalInt(t, neg, DigitsEnd(t, 1))

RadixLiteral(n, v) == IF n = 2 \/ v < 0 THEN NaN ELSE IntNumber(FALSE, v)

Radix(c) == IF c \in {120, 88} THEN 16 ELSE IF c \in {111, 79} THEN 8 ELSE 2

\* Number(t) for a trimmed t
TrimmedNumber(t) ==
    IF Len(t) = 0 THEN IntNumber(FALSE, 0)
    ELSE IF Len(t) >= 2 /\ t[1] = 48 /\ t[2] \in {120, 88, 111, 79, 98, 66}
    THEN RadixLiteral(Len(t), RadixValue(t, 3, Len(t) + 1, Radix(t[2]), 0))
    ELSE DecimalLiteral(IF t[1] \in {43, 45} THEN Tail(t) ELSE t, t[1] = 45)

JsNumber(s) == TrimmedNumber(Trim(s))

\* const [baseIp, prefixStr] = cidr.split("/"); Number(prefixStr)
BaseIp(cidr) == Split(cidr, 47)[1]

PrefixOf(parts) == IF Len(parts) >= 2 THEN JsNumber(parts[2]) ELSE NaN

PrefixNumber(cidr) == PrefixOf(Split(cidr, 47))

\* !Number.isInteger(prefix) || prefix < 0 || prefix > max
BadPrefix(prefix, max) == ~prefix.int \/ (prefix.neg /\ prefix.val > 0) \/ prefix.val > max

----------------------------------------------------------------------------
(* part_001: IPv4                                                           *)

Null32 == [isNull |-> TRUE, v |-> Zero]

Some32(n) == [isNull |-> FALSE, v |-> n]

\* (num << 8) | octet
PushOctet(num, octet) == BitOr(Shl(num, 8), NumOfInt(octet))

\* lines 112-115 for the digit code
ipv4ToIntDigit(octet, code) == octet * 10 + (code - 48)

RECURSIVE ipv4ToIntLoop(_, _, _, _, _)
ipv4ToIntLoop(ip, i, num, octet, octetCount) ==
    IF i > Len(ip) \/ ip[i] = 47 \/ ip[i] = 37
    THEN IF octetCount # 3 THEN Null32 ELSE Some32(ToUint32(PushOctet(num, octet)))
    ELSE IF ip[i] >= 48 /\ ip[i] <= 57
    THEN IF ipv4ToIntDigit(octet, ip[i]) > 255 THEN Null32
         ELSE ipv4ToIntLoop(ip, i + 1, num, ipv4ToIntDigit(octet, ip[i]), octetCount)
    ELSE IF ip[i] = 46
    THEN IF octetCount >= 3 THEN Null32
         ELSE ipv4ToIntLoop(ip, i + 1, PushOctet(num, octet), 0, octetCount + 1)
    ELSE Null32

ipv4ToInt(ip) == ipv4ToIntLoop(ip, 1, Zero, 0, 0)

NullRange == [isNull |-> TRUE, start |-> Zero, end |-> Zero]

\* prefix === 0 ? 0 : (0xFFFFFFFF << (32 - prefix)) >>> 0
Mask32(bits) == IF bits = 0 THEN Zero ELSE ToUint32(Shl(AllOnes, 32 - bits))

\* lines 140-141, given start
RangeFrom(start, mask) ==
    [isNull |-> FALSE, start |-> start, end |-> ToUint32(BitOr(start, ToUint32(BitNot(mask))))]

\* lines 139-141 with start = ipInt & mask, not brought back to unsigned
MaskedRangeSigned(ipInt, mask) == RangeFrom(BitAnd(ipInt, mask), mask)

\* lines 139-141
MaskedRange(ipInt, mask) == RangeFrom(ToUint32(BitAnd(ipInt, mask)), mask)

\* lines 135-141, given the prefix and the parsed address
ipv4RangeOf(prefix, ipInt) ==
    IF BadPrefix(prefix, 32) THEN NullRange
    ELSE IF ipInt.isNull THEN NullRange
    ELSE MaskedRange(ipInt.v, Mask32(prefix.val))

ipv4CidrToRange(cidr) == ipv4RangeOf(PrefixNumber(cidr), ipv4ToInt(BaseIp(cidr)))

\* the comparator (a.start - b.start) || (a.end - b.end) is negative
Before32(a, b) == NumLt(a.start, b.start) \/ (a.start = b.start /\ NumLt(a.end, b.end))

\* Array.prototype.sort is stable: x goes after every element not after it
RECURSIVE InsertSorted32(_, _)
InsertSorted32(s, x) ==
    IF s = <<>> THEN <<x>>
    ELSE IF Before32(x, Head(s)) THEN <<x>> \o s
    ELSE <<Head(s)>> \o InsertSorted32(Tail(s), x)

RECURSIVE Sort32(_)
Sort32(s) ==
    IF s = <<>> THEN <<>> ELSE InsertSorted32(Sort32(SubSeq(s, 1, Len(s) - 1)), s[Len(s)])

\* lines 151-155 with the test cur.start > last.end: ranges one apart are not fused
mergeStep32Unfused(merged, cur, last) ==
    IF NumGt(cur.start, last.end) THEN Append(merged, cur)
    ELSE IF NumGt(cur.end, last.end) THEN [merged EXCEPT ![Len(merged)].end = cur.end]
    ELSE merged

\* lines 151-155: merged after cur was met, last being its last range
mergeStep32(merged, cur, last) ==
    IF NumGt(cur.start, NumAdd(last.end, 1)) THEN Append(merged, cur)
    ELSE IF NumGt(cur.end, last.end) THEN [merged EXCEPT ![Len(merged)].end = cur.end]
    ELSE merged

RECURSIVE mergeLoop32(_, _, _)
mergeLoop32(ranges, i, merged) ==
    IF i > Len(ranges) THEN merged
    ELSE mergeLoop32(ranges, i + 1, mergeStep32(merged, ranges[i], merged[Len(merged)]))

mergeSorted32(sorted) == mergeLoop32(sorted, 2, <<sorted[1]>>)

mergeRanges32(ranges) ==
    IF Len(ranges) = 0 THEN <<>> ELSE mergeSorted32(Sort32(ranges))

PushRange(range) ==
    IF range.isNull THEN <<>> ELSE <<[start |-> range.start, end |-> range.end]>>

\* lines 161-165: the ranges of the lines that convert
RECURSIVE RangesOf4(_)
RangesOf4(lines) ==
    IF lines = <<>> THEN <<>>
    ELSE PushRange(ipv4CidrToRange(Head(lines))) \o RangesOf4(Tail(lines))

\* lines 176-185 for the bucket high of a range that reaches it
SplitStep(b, lowStart, lowEnd) ==
    IF b.type = 1 THEN b
    ELSE IF lowStart = 0 /\ lowEnd = 65535 THEN [type |-> 1, list |-> <<>>]
    ELSE [type |-> b.type, list |-> Append(b.list, <<lowStart, lowEnd>>)]

SplitRange(b, high, range) ==
    IF high < High16(range.start) \/ high > High16(range.end) THEN b
    ELSE SplitStep(b, IF high = High16(range.start) THEN Low16(range.start) ELSE 0,
                      IF high = High16(range.end) THEN Low16(range.end) ELSE 65535)

\* lines 171-187 for one bucket: its type and pending list after every merged
\* range was split over the buckets (a list of <<>> stands for no list)
RECURSIVE SplitInto(_, _, _, _)
SplitInto(rs, i, high, b) ==
    IF i > Len(rs) THEN b
    ELSE SplitInto(rs, i + 1, high, SplitRange(b, high, rs[i]))

\* the comparator (a[0] - b[0]) || (a[1] - b[1]) is negative
BeforeLow(a, b) == a[1] < b[1] \/ (a[1] = b[1] /\ a[2] < b[2])

RECURSIVE InsertSortedLow(_, _)
InsertSortedLow(s, x) ==
    IF s = <<>> THEN <<x>>
    ELSE IF BeforeLow(x, Head(s)) THEN <<x>> \o s
    ELSE <<Head(s)>> \o InsertSortedLow(Tail(s), x)

RECURSIVE SortLow(_)
SortLow(s) ==
    IF s = <<>> THEN <<>> ELSE InsertSortedLow(SortLow(SubSeq(s, 1, Len(s) - 1)), s[Len(s)])

\* lines 198-202
mergeLowStep(mergedLow, cur, last) ==
    IF cur[1] > last[2] + 1 THEN Append(mergedLow, cur)
    ELSE IF cur[2] > last[2] THEN [mergedLow EXCEPT ![Len(mergedLow)][2] = cur[2]]
    ELSE mergedLow

RECURSIVE mergeLowLoop(_, _, _)
mergeLowLoop(list, j, mergedLow) ==
    IF j > Len(list) THEN mergedLow
    ELSE mergeLowLoop(list, j + 1, mergeLowStep(mergedLow, list[j], mergedLow[Len(mergedLow)]))

\* lines 204-211
TypeOfMerged(mergedLow) ==
    IF Len(mergedLow) = 1 /\ mergedLow[1][1] = 0 /\ mergedLow[1][2] = 65535
    THEN [type |-> 1, list |-> <<>>]
    ELSE [type |-> 2, list |-> mergedLow]

mergeSortedLow(sorted) == TypeOfMerged(mergeLowLoop(sorted, 2, <<sorted[1]>>))

\* lines 190-212 for one bucket
FinishBucket(b) ==
    IF b.list = <<>> \/ b.type = 1 THEN b ELSE mergeSortedLow(SortLow(b.list))

\* the buckets some merged range reaches; every other bucket keeps type 0
TouchedBuckets(merged) ==
    UNION { High16(merged[i].start) .. High16(merged[i].end) : i \in 1..Len(merged) }

Least(highs) == CHOOSE x \in highs : \A y \in highs : x <= y

\* lines 219-230: the lists of the type-2 buckets, packed in bucket order
RECURSIVE Flatten(_, _)
Flatten(bk, highs) ==
    IF highs = {} THEN <<>>
    ELSE bk[Least(highs)].list \o Flatten(bk, highs \ {Least(highs)})

\* a typed array is zero-filled: an index outside the written ones reads 0
ReadArray(a, i) == IF i \in DOMAIN a THEN a[i] ELSE 0

RECURSIVE OffsetsOf(_, _, _, _)
OffsetsOf(bk, highs, cursor, acc) ==
    IF highs = {} THEN acc
    ELSE OffsetsOf(bk, highs \ {Least(highs)}, cursor + Len(bk[Least(highs)].list),
                   acc @@ (Least(highs) :> cursor))

\* lines 214-232, given the buckets
PackIndex4(buckets, partial, packed) ==
    [bucketType |-> [h \in DOMAIN buckets |-> buckets[h].type],
     offsets    |-> OffsetsOf(buckets, partial, 0, <<>>),
     counts     |-> [c \in partial |-> Len(buckets[c].list)],
     starts     |-> [k \in 1..Len(packed) |-> packed[k][1]],
     ends       |-> [e \in 1..Len(packed) |-> packed[e][2]]]

PartialOf(buckets) == {p \in DOMAIN buckets : buckets[p].type = 2}

IndexOfBuckets(buckets) ==
    PackIndex4(buckets, PartialOf(buckets), Flatten(buckets, PartialOf(buckets)))

\* lines 168-212, given the merged ranges
BucketsOf(merged) ==
    [b \in TouchedBuckets(merged) |->
        FinishBucket(SplitInto(merged, 1, b, [type |-> 0, list |-> <<>>]))]

buildIpv4IndexFromCidrs(lines) == IndexOfBuckets(BucketsOf(mergeRanges32(RangesOf4(lines))))

\* lines 246-255: the greatest mid in lo..hi with starts[offset + mid] <= low
RECURSIVE search4(_, _, _, _, _, _)
search4(ix, off, lw, lo, hi, found) ==
    IF lo > hi THEN found
    ELSE IF ix.starts[off + ((lo + hi) \div 2) + 1] <= lw
    THEN search4(ix, off, lw, ((lo + hi) \div 2) + 1, hi, (lo + hi) \div 2)
    ELSE search4(ix, off, lw, lo, ((lo + hi) \div 2) - 1, found)

\* line 256 with "<" for "<=": the last address of a range is left out
FoundIn4Strict(index, offset, low, idx) == idx >= 0 /\ low < index.ends[offset + idx + 1]

\* line 256
FoundIn4(index, offset, low, idx) == idx >= 0 /\ low <= index.ends[offset + idx + 1]

\* lines 240-256
searchBucket4(index, low, offset, count) ==
    FoundIn4(index, offset, low, search4(index, offset, low, 0, count - 1, -1))

\* lines 237-256
containsTyped(index, ipInt, type) ==
    IF type = 1 THEN TRUE
    ELSE IF type = 0 THEN FALSE
    ELSE searchBucket4(index, Low16(ipInt), ReadArray(index.offsets, High16(ipInt)),
                       ReadArray(index.counts, High16(ipInt)))

containsIpv4(index, ipInt) ==
    containsTyped(index, ipInt, ReadArray(index.bucketType, High16(ipInt)))

\* lines 734-735 without the test of line 734: the failure value is looked up
answerV4Unchecked(index, ipInt) == containsIpv4(index, ipInt.v)

\* lines 734-735
answerV4(index, ipInt) == IF ipInt.isNull THEN FALSE ELSE containsIpv4(index, ipInt.v)

isVpnV4(index, ip) == answerV4(index, ipv4ToInt(ip))

----------------------------------------------------------------------------
(* part_001: IPv6 parsing                                                   *)

\* HEX_TABLE[code] for code <= 127
HEX_TABLE(code) ==
    IF code >= 48 /\ code <= 57 THEN code - 48
    ELSE IF code >= 65 /\ code <= 70 THEN code - 55
    ELSE IF code >= 97 /\ code <= 102 THEN code - 87
    ELSE -1

\* segs[idx] = v on a Uint16Array(8): a write past the end is dropped
SetSeg(segs, idx, v) ==
    IF idx >= 0 /\ idx < 8 THEN [segs EXCEPT ![idx + 1] = v % 65536] ELSE segs

TailFail == [idx |-> -1, segs |-> <<>>]

\* lines 302-318, given what the loop left
parseIpv4TailEnd(octet, octetCount, a, b, segs, segIndex) ==
    IF octetCount # 3 THEN TailFail
    ELSE IF segIndex + 1 >= 8 THEN TailFail
    ELSE [idx |-> segIndex + 2, segs |-> SetSeg(SetSeg(segs, segIndex, a), segIndex + 1, Or16(b, octet))]

\* lines 279-301
RECURSIVE parseIpv4TailLoop(_, _, _, _, _, _, _, _, _)
parseIpv4TailLoop(addr, i, end, octet, octetCount, a, b, segs, segIndex) ==
    IF i >= end THEN parseIpv4TailEnd(octet, octetCount, a, b, segs, segIndex)
    ELSE IF addr[i + 1] >= 48 /\ addr[i + 1] <= 57
    THEN IF ipv4ToIntDigit(octet, addr[i + 1]) > 255 THEN TailFail
         ELSE parseIpv4TailLoop(addr, i + 1, end, ipv4ToIntDigit(octet, addr[i + 1]),
                                octetCount, a, b, segs, segIndex)
    ELSE IF addr[i + 1] = 46
    THEN IF octetCount >= 3 THEN TailFail
         ELSE parseIpv4TailLoop(addr, i + 1, end, 0, octetCount + 1,
                                IF octetCount = 0 THEN octet * 256
                                ELSE IF octetCount = 1 THEN Or16(a, octet) ELSE a,
                                IF octetCount = 2 THEN octet * 256 ELSE b,
                                segs, segIndex)
    ELSE TailFail

parseIpv4Tail(addr, start, end, segs, segIndex) ==
    parseIpv4TailLoop(addr, start, end, 0, 0, 0, 0, segs, segIndex)

NullParts == [isNull |-> TRUE, parts |-> <<Zero, Zero, Zero, Zero>>]

\* lines 350-354 and 424-428: ((segs[2k] << 16) | segs[2k+1]) >>> 0
PackParts(segs) ==
    [isNull |-> FALSE,
     parts  |-> [k \in 1..4 |->
                    ToUint32(BitOr(Shl(NumOfInt(segs[2 * k - 1]), 16), NumOfInt(segs[2 * k])))]]

\* lines 323-331: the position of the first '/' or '%', or the length
RECURSIVE AddressEnd(_, _)
AddressEnd(addr, i) ==
    IF i >= Len(addr) THEN Len(addr)
    ELSE IF addr[i + 1] = 47 \/ addr[i + 1] = 37 THEN i
    ELSE AddressEnd(addr, i + 1)

\* addr[k] === ":" (undefined past the end)
IsColonAt(addr, k) == k < Len(addr) /\ addr[k + 1] = 58

\* lines 342-348 for the four character codes of a group: its value, or -1
GroupValue(c0, c1, c2, c3) ==
    IF c0 > 127 \/ c1 > 127 \/ c2 > 127 \/ c3 > 127 THEN -1
    ELSE IF HEX_TABLE(c0) < 0 \/ HEX_TABLE(c1) < 0 \/ HEX_TABLE(c2) < 0 \/ HEX_TABLE(c3) < 0
    THEN -1
    ELSE HEX_TABLE(c0) * 4096 + HEX_TABLE(c1) * 256 + HEX_TABLE(c2) * 16 + HEX_TABLE(c3)

\* lines 336-349 for group g (0-based): its value, or -1
ExpandedGroup(addr, g) ==
    GroupValue(addr[5 * g + 1], addr[5 * g + 2], addr[5 * g + 3], addr[5 * g + 4])

\* lines 334-356: the fixed-offset path
IsExpandedForm(addr, len) ==
    /\ len = 39
    /\ \A k \in {4, 9, 14, 19, 24, 29, 34} : IsColonAt(addr, k)

PackGroups(groups) ==
    IF \E g \in 1..8 : groups[g] < 0 THEN NullParts ELSE PackParts(groups)

ipv6FastPath(addr) == PackGroups([g \in 1..8 |-> ExpandedGroup(addr, g - 1)])

\* lines 410-428 without the shift of lines 414-419: the segments after "::"
\* stay where the loop put them
ExpandSegsUnshifted(segs, segIndex, dc) ==
    IF dc # -1
    THEN IF 8 - segIndex < 0 THEN NullParts
         ELSE PackParts([j \in 1..8 |-> IF j - 1 < segIndex THEN segs[j] ELSE 0])
    ELSE IF segIndex # 8 THEN NullParts
    ELSE PackParts(segs)

\* lines 410-428, given the segments and their number
ExpandSegs(segs, segIndex, dc) ==
    IF dc # -1
    THEN IF 8 - segIndex < 0 THEN NullParts
         ELSE PackParts([j \in 1..8 |->
                            IF j - 1 < dc THEN segs[j]
                            ELSE IF j - 1 < dc + (8 - segIndex) THEN 0
                            ELSE segs[j - (8 - segIndex)]])
    ELSE IF segIndex # 8 THEN NullParts
    ELSE PackParts(segs)

\* lines 406-428, given what the loop left
ipv6Finish(st) ==
    IF st.segDigits > 0
    THEN ExpandSegs(SetSeg(st.segs, st.segIndex, st.segValue), st.segIndex + 1, st.doubleColonIndex)
    ELSE ExpandSegs(st.segs, st.segIndex, st.doubleColonIndex)

\* lines 389-395, given what parseIpv4Tail returned
ipv6AfterTail(st, tail) ==
    IF tail.idx < 0 THEN NullParts
    ELSE ExpandSegs(tail.segs, tail.idx, st.doubleColonIndex)

\* lines 369-376: the state after "::", the open segment pushed
ipv6AfterDoubleColon(st, i, segs, idx) ==
    [segs |-> segs, segIndex |-> idx, segValue |-> 0, segDigits |-> 0,
     doubleColonIndex |-> idx, segmentStart |-> i + 2]

\* lines 364-404
RECURSIVE ipv6Loop(_, _, _, _)
ipv6Loop(addr, len, i, st) ==
    IF i >= len THEN ipv6Finish(st)
    ELSE IF addr[i + 1] = 58
    THEN IF i + 1 < len /\ addr[i + 2] = 58
         THEN IF st.doubleColonIndex # -1 THEN NullParts
              ELSE IF st.segDigits > 0
              THEN IF st.segIndex + 1 > 8 THEN NullParts
                   ELSE ipv6Loop(addr, len, i + 2,
                          ipv6AfterDoubleColon(st, i, SetSeg(st.segs, st.segIndex, st.segValue),
                                               st.segIndex + 1))
              ELSE IF st.segIndex > 8 THEN NullParts
              ELSE ipv6Loop(addr, len, i + 2, ipv6AfterDoubleColon(st, i, st.segs, st.segIndex))
         ELSE IF st.segDigits = 0 THEN NullParts
              ELSE IF st.segIndex + 1 > 8 THEN NullParts
              ELSE ipv6Loop(addr, len, i + 1,
                     [segs |-> SetSeg(st.segs, st.segIndex, st.segValue),
                      segIndex |-> st.segIndex + 1, segValue |-> 0, segDigits |-> 0,
                      doubleColonIndex |-> st.doubleColonIndex, segmentStart |-> i + 1])
    ELSE IF addr[i + 1] = 46
    THEN ipv6AfterTail(st, parseIpv4Tail(addr, st.segmentStart, len, st.segs, st.segIndex))
    ELSE IF addr[i + 1] > 127 THEN NullParts
    ELSE IF HEX_TABLE(addr[i + 1]) < 0 THEN NullParts
    ELSE IF st.segDigits + 1 > 4 THEN NullParts
    ELSE ipv6Loop(addr, len, i + 1,
           [st EXCEPT !.segValue = st.segValue * 16 + HEX_TABLE(addr[i + 1]),
                      !.segDigits = st.segDigits + 1])

\* lines 331-428, given len
ipv6PartsOf(ip, len) ==
    IF IsExpandedForm(ip, len) THEN ipv6FastPath(ip)
    ELSE ipv6Loop(ip, len, 0,
           [segs |-> <<0, 0, 0, 0, 0, 0, 0, 0>>, segIndex |-> 0, segValue |-> 0,
            segDigits |-> 0, doubleColonIndex |-> -1, segmentStart |-> 0])

ipv6ToParts(ip) == ipv6PartsOf(ip, AddressEnd(ip, 0))

----------------------------------------------------------------------------
(* part_001: IPv6 ranges and their merge                                    *)

NullRange6 == [isNull |-> TRUE, start |-> <<Zero, Zero, Zero, Zero>>, end |-> <<Zero, Zero, Zero, Zero>>]

\* lines 451-452, given the masked word: nothing brings it back to unsigned
WordFrom(masked, mask) ==
    [start |-> masked, end |-> BitOr(masked, ToUint32(BitNot(mask)))]

\* lines 450-452
MaskedWord(word, mask) == WordFrom(BitAnd(word, mask), mask)

\* lines 440-453 for word i (0-based): its start and end
MaskWord(word, i, prefix) ==
    IF prefix >= i * 32 + 32 THEN [start |-> word, end |-> word]
    ELSE IF prefix <= i * 32 THEN [start |-> Zero, end |-> AllOnes]
    ELSE MaskedWord(word, Mask32(prefix - i * 32))

\* lines 437-455, given the masked words
RangeOfWords(words) ==
    [isNull |-> FALSE,
     start  |-> [w \in 1..4 |-> words[w].start],
     end    |-> [w \in 1..4 |-> words[w].end]]

\* lines 433-455, given the prefix and the parsed address
ipv6RangeOf(prefix, parsed) ==
    IF BadPrefix(prefix, 128) THEN NullRange6
    ELSE IF parsed.isNull THEN NullRange6
    ELSE RangeOfWords([w \in 1..4 |-> MaskWord(parsed.parts[w], w - 1, prefix.val)])

ipv6CidrToRange(cidr) == ipv6RangeOf(PrefixNumber(cidr), ipv6ToParts(BaseIp(cidr)))

\* compare a tuple of numbers with another, word by word: -1, 0 or 1
RECURSIVE CompareWords(_, _, _)
CompareWords(a, b, k) ==
    IF k > Len(a) THEN 0
    ELSE IF a[k] # b[k] THEN (IF NumLt(a[k], b[k]) THEN -1 ELSE 1)
    ELSE CompareWords(a, b, k + 1)

compareLow96(a, b) == CompareWords(a, b, 1)

compare128(a, b) == CompareWords(a, b, 1)

lowAddOne(e) ==
    IF e[3] # AllOnes THEN <<e[1], e[2], ToUint32(NumAdd(e[3], 1))>>
    ELSE IF e[2] # AllOnes THEN <<e[1], ToUint32(NumAdd(e[2], 1)), Zero>>
    ELSE <<ToUint32(NumAdd(e[1], 1)), Zero, Zero>>

addOne128(p) ==
    IF p[4] # AllOnes THEN <<p[1], p[2], p[3], ToUint32(NumAdd(p[4], 1))>>
    ELSE IF p[3] # AllOnes THEN <<p[1], p[2], ToUint32(NumAdd(p[3], 1)), Zero>>
    ELSE IF p[2] # AllOnes THEN <<p[1], ToUint32(NumAdd(p[2], 1)), Zero, Zero>>
    ELSE <<ToUint32(NumAdd(p[1], 1)), Zero, Zero, Zero>>

\* the comparator of lines 488-494 is negative, given its first comparison
Before128By(c, a, b) == c < 0 \/ (c = 0 /\ compare128(a.end, b.end) < 0)

Before128(a, b) == Before128By(compare128(a.start, b.start), a, b)

RECURSIVE InsertSorted128(_, _)
InsertSorted128(s, x) ==
    IF s = <<>> THEN <<x>>
    ELSE IF Before128(x, Head(s)) THEN <<x>> \o s
    ELSE <<Head(s)>> \o InsertSorted128(Tail(s), x)

RECURSIVE Sort128(_)
Sort128(s) ==
    IF s = <<>> THEN <<>> ELSE InsertSorted128(Sort128(SubSeq(s, 1, Len(s) - 1)), s[Len(s)])

\* lines 499-503: merged after cur was met, last being its last range
mergeStep128(merged, cur, last) ==
    IF compare128(cur.start, addOne128(last.end)) > 0 THEN Append(merged, cur)
    ELSE IF compare128(cur.end, last.end) > 0 THEN [merged EXCEPT ![Len(merged)].end = cur.end]
    ELSE merged

RECURSIVE mergeLoop128(_, _, _)
mergeLoop128(ranges, i, merged) ==
    IF i > Len(ranges) THEN merged
    ELSE mergeLoop128(ranges, i + 1, mergeStep128(merged, ranges[i], merged[Len(merged)]))

mergeSorted128(sorted) == mergeLoop128(sorted, 2, <<sorted[1]>>)

mergeRanges128(ranges) ==
    IF Len(ranges) = 0 THEN <<>> ELSE mergeSorted128(Sort128(ranges))

\* lines 580-584: the ranges of the lines that convert
RECURSIVE RangesOf6(_)
RangesOf6(lines) ==
    IF lines = <<>> THEN <<>>
    ELSE PushRange(ipv6CidrToRange(Head(lines))) \o RangesOf6(Tail(lines))

----------------------------------------------------------------------------
(* part_001: the meta table                                                 *)

\* 2654435761 = 0x9E3779B1
META_HASH_MULT == <<40503, 31153>>

\* the low 16 bits, and the carry into the high half, of x * y for 16-bit x and y
MulLow(x, y) == (((((x \div 256) * y) % 256) * 256) + ((x % 256) * y)) % Half

MulCarry(x, y) == ((((x \div 256) * y) + (((x % 256) * y) \div 256)) \div 256) % Half

\* Math.imul(x, y) >>> 0 for unsigned x and y
ImulWords(x, y) ==
    <<(MulLow(x[1], y[2]) + MulLow(x[2], y[1]) + MulCarry(x[2], y[2])) % Half,
      MulLow(x[2], y[2])>>

\* Math.imul(a, b) >>> 0
Imul(a, b) == ImulWords(ToUint32(a), ToUint32(b))

\* x & mask for a mask below 65536 that is a power of two less one
HashSlot(key, mask) == Imul(key, META_HASH_MULT)[2] % (mask + 1)

RECURSIVE TableSize(_, _)
TableSize(tableSize, target) ==
    IF tableSize < target THEN TableSize(tableSize * 2, target) ELSE tableSize

\* lines 531: the first empty slot from slot on
RECURSIVE FreeSlot(_, _, _)
FreeSlot(table, slot, mask) ==
    IF table[slot + 1] # 0 THEN FreeSlot(table, (slot + 1) % (mask + 1), mask) ELSE slot

RECURSIVE FillTable(_, _, _, _)
FillTable(keys, i, table, mask) ==
    IF i >= Len(keys) THEN table
    ELSE FillTable(keys, i + 1,
                   [table EXCEPT ![FreeSlot(table, HashSlot(keys[i + 1], mask), mask) + 1] = i + 1],
                   mask)

\* lines 525-534, given the keys and the table size
MetaTableOf(entries, keys, tableSize) ==
    [keys    |-> keys,
     types   |-> [i \in 1..Len(entries) |-> entries[i].type],
     offsets |-> [i \in 1..Len(entries) |-> ToUint32(entries[i].offset)],
     counts  |-> [i \in 1..Len(entries) |-> ToUint32(entries[i].count)],
     table   |-> FillTable(keys, 0, [k \in 1..tableSize |-> 0], tableSize - 1),
     mask    |-> tableSize - 1]

\* Math.max(4, Math.ceil(count * 1.3))
MetaTarget(count) == IF (count * 13 + 9) \div 10 > 4 THEN (count * 13 + 9) \div 10 ELSE 4

buildMetaTable(entries) ==
    MetaTableOf(entries, [i \in 1..Len(entries) |-> ToUint32(entries[i].key)],
                TableSize(1, MetaTarget(Len(entries))))

\* lines 543-549
RECURSIVE metaProbe(_, _, _)
metaProbe(index, p0, slot) ==
    IF index.metaTable[slot + 1] = 0 THEN -1
    ELSE IF index.metaKeys[index.metaTable[slot + 1]] = p0 THEN index.metaTable[slot + 1] - 1
    ELSE metaProbe(index, p0, (slot + 1) % (index.metaMask + 1))

\* lines 537-550 without the step to the next slot: only the key's own slot is read
metaLookupOneSlot(index, p0) ==
    IF Len(index.metaTable) = 0 THEN -1
    ELSE IF index.metaTable[HashSlot(p0, index.metaMask) + 1] = 0 THEN -1
    ELSE IF index.metaKeys[index.metaTable[HashSlot(p0, index.metaMask) + 1]] = p0
    THEN index.metaTable[HashSlot(p0, index.metaMask) + 1] - 1
    ELSE -1

metaLookup(index, p0) ==
    IF Len(index.metaTable) = 0 THEN -1
    ELSE metaProbe(index, p0, HashSlot(p0, index.metaMask))

----------------------------------------------------------------------------
(* part_001: the IPv6 index                                                 *)

\* the comparator of line 555 is negative
BeforeStart128(a, b) == compare128(a.start, b.start) < 0

RECURSIVE InsertByStart128(_, _)
InsertByStart128(s, x) ==
    IF s = <<>> THEN <<x>>
    ELSE IF BeforeStart128(x, Head(s)) THEN <<x>> \o s
    ELSE <<Head(s)>> \o InsertByStart128(Tail(s), x)

RECURSIVE buildSuperRanges(_)
buildSuperRanges(superRanges) ==
    IF superRanges = <<>> THEN <<>>
    ELSE InsertByStart128(buildSuperRanges(SubSeq(superRanges, 1, Len(superRanges) - 1)),
                          superRanges[Len(superRanges)])

\* lines 561-573: the greatest mid in lo..hi whose start is at most p
RECURSIVE searchSuper(_, _, _, _, _)
searchSuper(ranges, p, lo, hi, found) ==
    IF lo > hi THEN found
    ELSE IF compare128(ranges[(lo + hi) \div 2 + 1].start, p) <= 0
    THEN searchSuper(ranges, p, (lo + hi) \div 2 + 1, hi, (lo + hi) \div 2)
    ELSE searchSuper(ranges, p, lo, (lo + hi) \div 2 - 1, found)

\* lines 574-576, given what the search found
FoundInSuper(ranges, p, idx) == idx >= 0 /\ compare128(p, ranges[idx + 1].end) <= 0

containsSuperRange(ranges, p) ==
    /\ Len(ranges) # 0
    /\ FoundInSuper(ranges, p, searchSuper(ranges, p, 0, Len(ranges) - 1, -1))

\* the position of key high in a Map kept as a sequence of entries, or 0
MapFind(map, high) ==
    IF \E k \in 1..Len(map) : map[k].high = high
    THEN CHOOSE k \in 1..Len(map) : map[k].high = high
    ELSE 0

DeleteAt(map, at) ==
    IF at = 0 THEN map ELSE SubSeq(map, 1, at - 1) \o SubSeq(map, at + 1, Len(map))

MapDelete(map, high) == DeleteAt(map, MapFind(map, high))

SeqHas(s, x) == \E k \in 1..Len(s) : s[k] = x

Low96(p) == <<p[2], p[3], p[4]>>

\* lines 605-613: the row pushed on the list of bucket high, made if absent
PushRow(bucketMap, at, high, row) ==
    IF at = 0 THEN Append(bucketMap, [high |-> high, list |-> <<row>>])
    ELSE [bucketMap EXCEPT ![at].list = Append(@, row)]

\* lines 598-613 for a range within the bucket high
BucketStep(st, range, high) ==
    IF SeqHas(st.fullBuckets, high) THEN st
    ELSE IF /\ range.start[2] = Zero /\ range.start[3] = Zero /\ range.start[4] = Zero
            /\ range.end[2] = AllOnes /\ range.end[3] = AllOnes /\ range.end[4] = AllOnes
    THEN [st EXCEPT !.fullBuckets = Append(@, high), !.bucketMap = MapDelete(@, high)]
    ELSE [st EXCEPT !.bucketMap =
             PushRow(@, MapFind(st.bucketMap, high), high,
                     [start |-> Low96(range.start), end |-> Low96(range.end)])]

\* lines 592-613 for one merged range
RangeStep(st, range) ==
    IF range.start[1] # range.end[1]
    THEN [st EXCEPT !.superRanges = Append(@, range)]
    ELSE BucketStep(st, range, ToUint32(range.start[1]))

\* lines 591-614
RECURSIVE BucketPass(_, _, _)
BucketPass(merged, i, st) ==
    IF i > Len(merged) THEN st ELSE BucketPass(merged, i + 1, RangeStep(st, merged[i]))

\* the comparator of line 618 is negative
BeforeLow96(a, b) == compareLow96(a.start, b.start) < 0

RECURSIVE InsertSortedLow96(_, _)
InsertSortedLow96(s, x) ==
    IF s = <<>> THEN <<x>>
    ELSE IF BeforeLow96(x, Head(s)) THEN <<x>> \o s
    ELSE <<Head(s)>> \o InsertSortedLow96(Tail(s), x)

RECURSIVE SortLow96(_)
SortLow96(s) ==
    IF s = <<>> THEN <<>> ELSE InsertSortedLow96(SortLow96(SubSeq(s, 1, Len(s) - 1)), s[Len(s)])

\* lines 621-631: mergedLow after cur was met, last being its last row
mergeLow96Step(mergedLow, cur, last) ==
    IF compareLow96(cur.start, lowAddOne(last.end)) > 0 THEN Append(mergedLow, cur)
    ELSE IF compareLow96(cur.end, last.end) > 0
    THEN [mergedLow EXCEPT ![Len(mergedLow)].end = cur.end]
    ELSE mergedLow

\* lines 620-632
RECURSIVE mergeLow96Loop(_, _, _)
mergeLow96Loop(list, i, mergedLow) ==
    IF i > Len(list) THEN mergedLow
    ELSE mergeLow96Loop(list, i + 1,
                        mergeLow96Step(mergedLow, list[i], mergedLow[Len(mergedLow)]))

mergeSortedLow96(sorted) == mergeLow96Loop(sorted, 2, <<sorted[1]>>)

\* lines 618-634 for one bucket
MergeBucket(list) == mergeSortedLow96(SortLow96(list))

\* a row as the Uint32Arrays of lines 650-655 keep it
Uint32Row(row) ==
    [start |-> [k \in 1..3 |-> ToUint32(row.start[k])],
     end   |-> [k \in 1..3 |-> ToUint32(row.end[k])]]

\* lines 646-658: the meta entries and the packed rows of the partial buckets
RECURSIVE PackBuckets(_, _, _)
PackBuckets(map, k, acc) ==
    IF k > Len(map) THEN acc
    ELSE PackBuckets(map, k + 1,
            [entries |-> Append(acc.entries,
                                [key |-> map[k].high, type |-> 2,
                                 offset |-> NumOfInt(Len(acc.rows)),
                                 count |-> NumOfInt(Len(map[k].list))]),
             rows    |-> acc.rows \o [r \in 1..Len(map[k].list) |-> Uint32Row(map[k].list[r])]])

\* lines 666-680, given the packed rows and the meta table
IndexOfPacked(rows, metaTableInfo, superRanges) ==
    [metaKeys    |-> metaTableInfo.keys,
     metaTypes   |-> metaTableInfo.types,
     metaOffsets |-> metaTableInfo.offsets,
     metaCounts  |-> metaTableInfo.counts,
     metaTable   |-> metaTableInfo.table,
     metaMask    |-> metaTableInfo.mask,
     starts      |-> [r \in 1..Len(rows) |-> rows[r].start],
     ends        |-> [r \in 1..Len(rows) |-> rows[r].end],
     superRanges |-> buildSuperRanges(superRanges)]

\* lines 660-662: the entries of the full buckets
FullEntries(fullBuckets) ==
    [f \in 1..Len(fullBuckets) |->
        [key |-> fullBuckets[f], type |-> 1, offset |-> Zero, count |-> Zero]]

\* lines 646-680, given the packed partial buckets
IndexOfEntries(packed, fullBuckets, superRanges) ==
    IndexOfPacked(packed.rows, buildMetaTable(packed.entries \o FullEntries(fullBuckets)),
                  superRanges)

\* lines 616-634: every list of the map sorted and merged
MergeBuckets(bucketMap) ==
    [k \in 1..Len(bucketMap) |->
        [high |-> bucketMap[k].high, list |-> MergeBucket(bucketMap[k].list)]]

\* lines 616-680, given what the pass over the merged ranges left
IndexOfPass(pass) ==
    IndexOfEntries(PackBuckets(MergeBuckets(pass.bucketMap), 1, [entries |-> <<>>, rows |-> <<>>]),
                   pass.fullBuckets, pass.superRanges)

buildIpv6IndexFromCidrs(lines) ==
    IndexOfPass(BucketPass(mergeRanges128(RangesOf6(lines)), 1,
                           [bucketMap |-> <<>>, fullBuckets |-> <<>>, superRanges |-> <<>>]))

\* lines 696-710: the greatest mid in lo..hi with starts[offset + mid] at most low
RECURSIVE search6(_, _, _, _, _, _)
search6(ix, off, lw, lo, hi, found) ==
    IF lo > hi THEN found
    ELSE IF compareLow96(ix.starts[off + (lo + hi) \div 2 + 1], lw) <= 0
    THEN search6(ix, off, lw, (lo + hi) \div 2 + 1, hi, (lo + hi) \div 2)
    ELSE search6(ix, off, lw, lo, (lo + hi) \div 2 - 1, found)

\* lines 711-715, given what the search found
FoundIn6(index, offset, lw, idx) ==
    idx >= 0 /\ compareLow96(lw, index.ends[offset + idx + 1]) <= 0

\* lines 694-715 for the bucket whose meta entry is metaIndex
searchBucket6(index, offset, count, lw) ==
    FoundIn6(index, offset, lw, search6(index, offset, lw, 0, count - 1, -1))

\* lines 691-715, given what metaLookup returned
containsMeta(index, p, metaIndex) ==
    IF metaIndex < 0 THEN FALSE
    ELSE IF index.metaTypes[metaIndex + 1] = 1 THEN TRUE
    ELSE searchBucket6(index, index.metaOffsets[metaIndex + 1][2],
                       index.metaCounts[metaIndex + 1][2], Low96(p))

\* lines 689-715, given the unsigned words
containsUnsigned(index, p) ==
    IF containsSuperRange(index.superRanges, p) THEN TRUE
    ELSE containsMeta(index, p, metaLookup(index, p[1]))

containsIpv6Parts(index, parts) ==
    containsUnsigned(index, [k \in 1..4 |-> ToUint32(parts[k])])

\* lines 739-741, given what ipv6ToParts returned
answerV6(index, parsed) ==
    IF parsed.isNull THEN FALSE ELSE containsIpv6Parts(index, parsed.parts)

isVpnV6(index, ip) == answerV6(index, ipv6ToParts(ip))

\* lines 745-751: 6, 4 or 0 for the family the dispatcher picks
RECURSIVE Dispatch(_, _)
Dispatch(ip, i) ==
    IF i > Len(ip) THEN 0
    ELSE IF ip[i] = 58 THEN 6
    ELSE IF ip[i] = 46 THEN 4
    ELSE IF ip[i] = 47 \/ ip[i] = 37 THEN 0
    ELSE Dispatch(ip, i + 1)

\* lines 745-751, given the family the loop met
isVpnOf(index4, index6, ip, family) ==
    IF family = 6 THEN isVpnV6(index6, ip)
    ELSE IF family = 4 THEN isVpnV4(index4, ip)
    ELSE FALSE

isVpn(index4, index6, ip) == isVpnOf(index4, index6, ip, Dispatch(ip, 1))

----------------------------------------------------------------------------
(* src/mod.js: the interval-tree module.  Its numbers are not kept to 32  *)
(* bits by the code, and may be NaN.  A prefix text with a fraction       *)
(* ("8.5") is outside the inputs of the model.                             *)

NaNv == <<0, -1>>

IsNaN(a) == a[2] = -1

\* a + b
NumPlus(a, b) ==
    IF IsNaN(a) \/ IsNaN(b) THEN NaNv
    ELSE <<a[1] + b[1] + ((a[2] + b[2]) \div Half), (a[2] + b[2]) % Half>>

\* the operand of a bitwise operator: NaN converts to 0
IntOperand(a) == IF IsNaN(a) THEN Zero ELSE a

JsLt(a, b) == ~IsNaN(a) /\ ~IsNaN(b) /\ NumLt(a, b)

JsLe(a, b) == ~IsNaN(a) /\ ~IsNaN(b) /\ NumLe(a, b)

\* Math.max(a, b)
JsMax(a, b) == IF IsNaN(a) \/ IsNaN(b) THEN NaNv ELSE IF NumLt(a, b) THEN b ELSE a

\* the value of the decimal digits s[i..j-1]
RECURSIVE DigitsValue(_, _, _, _)
DigitsValue(s, i, j, acc) ==
    IF i >= j THEN acc ELSE DigitsValue(s, i + 1, j, NumPlus(NumPlus(Shl(acc, 3), Shl(acc, 1)), NumOfInt(s[i] - 48)))

\* parseInt(text, 10) for texts of fewer than ten digits
parseInt(text) ==
    LET t      == TrimLeft(text)
        signed == t # <<>> /\ t[1] \in {43, 45}
        from   == IF signed THEN 2 ELSE 1
        to     == DigitsEnd(t, from)
        v      == DigitsValue(t, from, to, Zero)
    IN  IF to = from THEN NaNv
        ELSE IF signed /\ t[1] = 45 /\ v # Zero
        THEN <<0 - v[1] - (IF v[2] = 0 THEN 0 ELSE 1), (Half - v[2]) % Half>>
        ELSE v

\* line 107: the reduce over the dot-separated pieces
RECURSIVE ipToBinaryFrom(_, _, _)
ipToBinaryFrom(pieces, k, acc) ==
    IF k > Len(pieces) THEN acc
    ELSE ipToBinaryFrom(pieces, k + 1, NumPlus(Shl(IntOperand(acc), 8), parseInt(pieces[k])))

ipToBinary(ip) == ipToBinaryFrom(Split(ip, 46), 1, Zero)

\* 32 - subnetMask as a shift count (subnetMask is undefined without a '/')
ShiftCount(cidr) ==
    LET n == PrefixNumber(cidr)
    IN  IF ~n.int THEN 0
        ELSE IF n.neg THEN (32 + n.val) % 32
        ELSE (32 - n.val) % 32

modIpv4CidrToRange(cidr) ==
    LET ipBinary == ipToBinary(BaseIp(cidr))
    IN  [start |-> ipBinary,
         end   |-> BitOr(IntOperand(ipBinary), NumPlus(Shl(<<0, 1>>, ShiftCount(cidr)), <<-1, 65535>>))]

NullNode == [isNull |-> TRUE]

IntervalNode(interval) ==
    [isNull |-> FALSE, interval |-> interval, max |-> interval.end,
     left |-> NullNode, right |-> NullNode]

\* lines 21-38 from node on
RECURSIVE insertAt(_, _)
insertAt(node, interval) ==
    IF node.isNull THEN IntervalNode(interval)
    ELSE IF JsLt(interval.start, node.interval.start)
    THEN [node EXCEPT !.max = JsMax(node.max, interval.end), !.left = insertAt(node.left, interval)]
    ELSE [node EXCEPT !.max = JsMax(node.max, interval.end), !.right = insertAt(node.right, interval)]

\* IntervalTree.insert on the tree rooted at root
insert(root, interval) == insertAt(root, interval)

\* lines 43-53 with the test node.left alone: max is not read
RECURSIVE queryLeftFirst(_, _)
queryLeftFirst(node, point) ==
    IF node.isNull THEN FALSE
    ELSE IF JsLe(node.interval.start, point) /\ JsLe(point, node.interval.end) THEN TRUE
    ELSE IF ~node.left.isNull THEN queryLeftFirst(node.left, point)
    ELSE queryLeftFirst(node.right, point)

\* IntervalTree.query from node on
RECURSIVE query(_, _)
query(node, point) ==
    IF node.isNull THEN FALSE
    ELSE IF JsLe(node.interval.start, point) /\ JsLe(point, node.interval.end) THEN TRUE
    ELSE IF ~node.left.isNull /\ JsLe(point, node.left.max) THEN query(node.left, point)
    ELSE query(node.right, point)

\* line 92 for one batch
RECURSIVE insertBatch(_, _, _)
insertBatch(root, batch, k) ==
    IF k > Len(batch) THEN root
    ELSE insertBatch(insert(root, modIpv4CidrToRange(batch[k])), batch, k + 1)

\* ipv4CidrRanges.slice(index, index + batchSize)
Slice(lines, index, batchSize) ==
    SubSeq(lines, index + 1, IF index + batchSize > Len(lines) THEN Len(lines) ELSE index + batchSize)

\* isVpn of mod.js: "TypeError" when itree is undefined
modIsVpn(tree, ip) ==
    IF ~tree.defined THEN "TypeError"
    ELSE IF query(tree.root, ipToBinary(ip)) THEN "true" ELSE "false"

----------------------------------------------------------------------------
(* Addresses and list lines as the inputs are drawn: an address is the      *)
(* tuple of its 16-bit groups (two for IPv4, eight for IPv6), and the text  *)
(* handed to the program is written from it.  The range a line denotes is   *)
(* computed on the groups, without the program's arithmetic.                *)

HexDigit(d) == IF d < 10 THEN 48 + d ELSE 87 + d

\* the hexadecimal text of a group, without leading zeros
RECURSIVE HexShort(_)
HexShort(n) ==
    IF n < 16 THEN <<HexDigit(n)>> ELSE Append(HexShort(n \div 16), HexDigit(n % 16))

\* the four-digit hexadecimal text of a group
Hex4(n) ==
    <<HexDigit(n \div 4096), HexDigit((n \div 256) % 16), HexDigit((n \div 16) % 16), HexDigit(n % 16)>>

UpperCase(s) == [i \in 1..Len(s) |-> IF s[i] >= 97 /\ s[i] <= 122 THEN s[i] - 32 ELSE s[i]]

\* the texts of a sequence joined by ':'
RECURSIVE JoinColon(_)
JoinColon(texts) ==
    IF texts = <<>> THEN <<>>
    ELSE IF Len(texts) = 1 THEN texts[1]
    ELSE texts[1] \o <<58>> \o JoinColon(Tail(texts))

QuadOf(hi, lo) == DottedQuad(<<hi \div 256, hi % 256, lo \div 256, lo % 256>>)

ShortGroups(g) == [k \in 1..Len(g) |-> HexShort(g[k])]

\* "2001:db8:0:0:0:0:0:1"
Ipv6Short(g) == JoinColon(ShortGroups(g))

\* "2001:0db8:0000:0000:0000:0000:0000:0001", 39 characters
Ipv6Expanded(g) == JoinColon([k \in 1..8 |-> Hex4(g[k])])

\* the number of zero groups of g from position k on
RECURSIVE ZeroRun(_, _)
ZeroRun(g, k) == IF k <= Len(g) /\ g[k] = 0 THEN 1 + ZeroRun(g, k + 1) ELSE 0

\* the first longest run of zero groups replaced by "::"
Compress(g) ==
    LET best == CHOOSE k \in 1..Len(g) :
                    /\ \A j \in 1..Len(g) : ZeroRun(g, j) <= ZeroRun(g, k)
                    /\ \A j \in 1..(k - 1) : ZeroRun(g, j) < ZeroRun(g, k)
        run  == ZeroRun(g, best)
    IN  IF run = 0 THEN JoinColon(ShortGroups(g))
        ELSE JoinColon(ShortGroups(SubSeq(g, 1, best - 1))) \o <<58, 58>>
             \o JoinColon(ShortGroups(SubSeq(g, best + run, Len(g))))

\* "2001:db8::1"
Ipv6Compressed(g) == Compress(g)

\* "0:0:0:0:0:ffff:1.2.3.4"
Ipv6Dotted(g) == JoinColon(ShortGroups(SubSeq(g, 1, 6))) \o <<58>> \o QuadOf(g[7], g[8])

\* "::ffff:1.2.3.4"
Ipv6CompressedDotted(g) ==
    LET head == Compress(SubSeq(g, 1, 6))
    IN  head \o (IF head[Len(head)] = 58 THEN <<>> ELSE <<58>>) \o QuadOf(g[7], g[8])

\* the text of an address
AddrText(g) == IF Len(g) = 2 THEN QuadOf(g[1], g[2]) ELSE Ipv6Short(g)

Pow2(n) == 2 ^ n

\* group k of the first and of the last address of g/p
GroupLow(g, k, p) ==
    IF p >= 16 * k THEN g[k]
    ELSE IF p <= 16 * (k - 1) THEN 0
    ELSE g[k] - (g[k] % Pow2(16 * k - p))

GroupHigh(g, k, p) ==
    IF p >= 16 * k THEN g[k]
    ELSE IF p <= 16 * (k - 1) THEN 65535
    ELSE GroupLow(g, k, p) + Pow2(16 * k - p) - 1

LexLt(a, b) ==
    \E k \in 1..Len(a) : a[k] < b[k] /\ \A j \in 1..(k - 1) : a[j] = b[j]

LexLe(a, b) == a = b \/ LexLt(a, b)

\* a line "address/prefix" that is valid, with the range it denotes
Line(g, p) ==
    [text  |-> AddrText(g) \o <<47>> \o DecDigits(p),
     valid |-> TRUE,
     lo    |-> [k \in 1..Len(g) |-> GroupLow(g, k, p)],
     hi    |-> [k \in 1..Len(g) |-> GroupHigh(g, k, p)]]

Line4(o, p) == Line(<<o[1] * 256 + o[2], o[3] * 256 + o[4]>>, p)

\* a line that is not valid
BadLine(text) == [text |-> text, valid |-> FALSE, lo |-> <<>>, hi |-> <<>>]

\* x lies in the range of the valid line e
InLine(x, e) == e.valid /\ Len(e.lo) = Len(x) /\ LexLe(e.lo, x) /\ LexLe(x, e.hi)

Covered(x, lines) == \E k \in 1..Len(lines) : InLine(x, lines[k])

Texts(lines) == [k \in 1..Len(lines) |-> lines[k].text]

ValidOnly(lines) == SelectSeq(lines, LAMBDA e : e.valid)

HasSucc(g) == \E k \in 1..Len(g) : g[k] # 65535

Succ(g) ==
    LET at == CHOOSE k \in 1..Len(g) : g[k] # 65535 /\ \A j \in (k + 1)..Len(g) : g[j] = 65535
    IN  [j \in 1..Len(g) |-> IF j < at THEN g[j] ELSE IF j = at THEN g[j] + 1 ELSE 0]

HasPred(g) == \E k \in 1..Len(g) : g[k] # 0

Pred(g) ==
    LET at == CHOOSE k \in 1..Len(g) : g[k] # 0 /\ \A j \in (k + 1)..Len(g) : g[j] = 0
    IN  [j \in 1..Len(g) |-> IF j < at THEN g[j] ELSE IF j = at THEN g[j] - 1 ELSE 65535]

\* the ends of a line's range and the addresses next to them
Around(e) ==
    {e.lo, e.hi} \cup (IF HasPred(e.lo) THEN {Pred(e.lo)} ELSE {})
                 \cup (IF HasSucc(e.hi) THEN {Succ(e.hi)} ELSE {})

\* every sequence over S of length at most n
RECURSIVE SeqsUpTo(_, _)
SeqsUpTo(S, n) ==
    IF n = 0 THEN {<<>>}
    ELSE LET shorter == SeqsUpTo(S, n - 1)
         IN  shorter \cup {Append(s, x) : s \in shorter, x \in S}

\* the body of a response that lists the lines
RECURSIVE BodyOf(_)
BodyOf(lines) ==
    IF lines = <<>> THEN <<>> ELSE lines[1].text \o <<10>> \o BodyOf(Tail(lines))

\* t.trim().split("\n")
TrimSplit(t) == Split(Trim(t), 10)

----------------------------------------------------------------------------
(* part_001: the module's life.  Its evaluation builds the two empty        *)
(* indexes and awaits updateList (line 729); setInterval then calls        *)
(* updateList every twelve hours.  Each fetch gives up after 20 s, so a    *)
(* call has ended long before the next one starts.  The exports are        *)
(* usable once the evaluation has ended, which is after the first          *)
(* publication.  History keeps whether the evaluation has ended, which     *)
(* call built each index and from which lines, and how the last ended call *)
(* went.                                                                    *)

MaxRefresh == 2

\* 2001:db8::
DocPrefix == <<8193, 3512, 0, 0, 0, 0, 0, 0>>

Served4 ==
    { <<Line4(<<1, 2, 3, 0>>, 24)>>,
      <<Line4(<<10, 0, 0, 0>>, 8), Line4(<<1, 2, 3, 0>>, 24)>> }

Served6 ==
    { <<Line(DocPrefix, 32)>>,
      <<Line(DocPrefix, 32), Line(<<10752, 1, 2, 0, 0, 0, 0, 0>>, 48)>> }

\* a response is its status, its body, whether the claims count it a failure,
\* and the lines its body lists
Listing(lines) == [status |-> 200, body |-> BodyOf(lines), failed |-> FALSE, lines |-> lines]

\* status 404 with the body "404: Not Found"
NotFound == [status |-> 404, body |-> <<52, 48, 52, 58, 32, 78, 111, 116, 32, 70, 111, 117, 110, 100>>, failed |-> TRUE, lines |-> <<>>]

\* status 200 with the body "<html></html>\n"
NotAList == [status |-> 200, body |-> <<60, 104, 116, 109, 108, 62, 60, 47, 104, 116, 109, 108, 62, 10>>, failed |-> TRUE, lines |-> <<>>]

Responses4 == {Listing(l) : l \in Served4} \cup {NotFound, NotAList}

Responses6 == {Listing(l) : l \in Served6} \cup {NotFound, NotAList}

\* 1.2.3.4, 10.0.0.1, 8.8.8.8, 2001:db8::1, 2a00:1:2::1, 2a00:1:3::1
Asked ==
    { <<258, 772>>, <<2560, 1>>, <<2056, 2056>>,
      <<8193, 3512, 0, 0, 0, 0, 0, 1>>, <<10752, 1, 2, 0, 0, 0, 0, 1>>,
      <<10752, 1, 3, 0, 0, 0, 0, 1>> }

NoTree == [defined |-> FALSE, root |-> NullNode]

Init ==
    /\ ipv4Index = buildIpv4IndexFromCidrs(<<>>)
    /\ ipv6Index = buildIpv6IndexFromCidrs(<<>>)
    /\ pc = "await4"
    /\ body4 = <<>>
    /\ refreshes = 1
    /\ history = [loaded |-> FALSE, gen4 |-> 0, gen6 |-> 0, src4 |-> <<>>, src6 |-> <<>>,
                  bad4 |-> FALSE, ended |-> 0, failed |-> FALSE, changed |-> FALSE]
    /\ answer = [asked |-> FALSE, x |-> <<>>, result |-> FALSE, at |-> "", gen4 |-> 0,
                 gen6 |-> 0]
    /\ itree = NoTree
    /\ tlines = <<>>
    /\ tindex = 0
    /\ cidrs = <<>>
    /\ subject = <<>>

\* line 730: the interval timer calls updateList, which runs up to its first await
IntervalFires ==
    /\ pc = "idle"
    /\ refreshes < MaxRefresh
    /\ pc' = "await4"
    /\ refreshes' = refreshes + 1
    /\ history' = [history EXCEPT !.bad4 = FALSE]
    /\ UNCHANGED <<ipv4Index, ipv6Index, body4, itree, tlines, tindex, cidrs, subject, answer>>

\* a rejected await ends updateList.  During the evaluation (line 729) the
\* module fails to load; later the rejection is unhandled, and the host either
\* goes on or ends the process.
Rejected ==
    /\ \E goesOn \in BOOLEAN :
          pc' = IF ~history.loaded \/ ~goesOn THEN "dead" ELSE "idle"
    /\ history' = [history EXCEPT !.ended = refreshes, !.failed = TRUE, !.changed = FALSE]
    /\ UNCHANGED <<ipv4Index, ipv6Index, body4, refreshes, itree, tlines, tindex, cidrs,
                   subject, answer>>

\* line 723: the fetch or the read of its body rejects (network error, timeout)
Fetch4Rejects ==
    /\ pc = "await4"
    /\ Rejected

\* line 723 followed at once by the assignment of line 725: the IPv4 index is
\* published while the IPv6 list is still awaited
Fetch4ResolvesAndPublishes(r) ==
    /\ pc = "await4"
    /\ body4' = TrimSplit(r.body)
    /\ ipv4Index' = buildIpv4IndexFromCidrs(TrimSplit(r.body))
    /\ pc' = "await6"
    /\ history' = [history EXCEPT !.bad4 = r.failed, !.gen4 = refreshes,
                                  !.src4 = TrimSplit(r.body)]
    /\ UNCHANGED <<ipv6Index, refreshes, itree, tlines, tindex, cidrs, subject, answer>>

\* line 723: the fetch resolves with the response r, whatever its status
Fetch4Resolves(r) ==
    /\ pc = "await4"
    /\ body4' = TrimSplit(r.body)
    /\ pc' = "await6"
    /\ history' = [history EXCEPT !.bad4 = r.failed]
    /\ UNCHANGED <<ipv4Index, ipv6Index, refreshes, itree, tlines, tindex, cidrs, subject, answer>>

\* line 724: the fetch or the read of its body rejects
Fetch6Rejects ==
    /\ pc = "await6"
    /\ Rejected

\* lines 724-726: the fetch resolves with r; both indexes are built and assigned
\* in one turn of the event loop
Fetch6Resolves(r) ==
    /\ pc = "await6"
    /\ ipv4Index' = buildIpv4IndexFromCidrs(body4)
    /\ ipv6Index' = buildIpv6IndexFromCidrs(TrimSplit(r.body))
    /\ pc' = "idle"
    /\ history' = [history EXCEPT !.loaded = TRUE, !.gen4 = refreshes, !.gen6 = refreshes,
                                  !.src4 = body4, !.src6 = TrimSplit(r.body),
                                  !.ended = refreshes,
                                  !.failed = history.bad4 \/ r.failed,
                                  !.changed = (ipv4Index' # ipv4Index \/ ipv6Index' # ipv6Index)]
    /\ UNCHANGED <<body4, refreshes, itree, tlines, tindex, cidrs, subject, answer>>

\* lines 744-752: isVpn is called, by an importer whose import has resolved
IsVpnCalled(x) ==
    /\ pc # "dead"
    /\ history.loaded
    /\ answer' = [asked |-> TRUE, x |-> x,
                  result |-> isVpn(ipv4Index, ipv6Index, AddrText(x)),
                  at |-> pc, gen4 |-> history.gen4, gen6 |-> history.gen6]
    /\ UNCHANGED <<ipv4Index, ipv6Index, pc, body4, refreshes, itree, tlines, tindex, cidrs,
                   subject, history>>

Next ==
    \/ IntervalFires
    \/ Fetch4Rejects
    \/ \E r \in Responses4 : Fetch4Resolves(r)
    \/ Fetch6Rejects
    \/ \E r \in Responses6 : Fetch6Resolves(r)
    \/ \E x \in Asked : IsVpnCalled(x)

Spec == Init /\ [][Next]_vars

----------------------------------------------------------------------------
(* src/mod.js: the module's life.  Its evaluation declares itree (line 58)  *)
(* without a value and calls updateList (line 101) without awaiting it, so  *)
(* isVpn can be called from then on.  updateList catches what its fetch     *)
(* rejects with.  The batches of batchInsertRanges run in timer callbacks,  *)
(* and other callbacks, such as a request handler that calls isVpn, run     *)
(* between them.  A refresh has ended long before the next one starts.      *)
(* History keeps the lines of the last list loaded to its end and of the    *)
(* list being loaded.                                                       *)

\* the batchSize of line 82, 500 in the code
BatchSize == 2

TreeServed ==
    { <<Line4(<<10, 0, 0, 0>>, 8), Line4(<<1, 2, 3, 0>>, 24),
        Line4(<<20, 0, 0, 0>>, 16), Line4(<<30, 1, 0, 0>>, 16)>>,
      <<Line4(<<1, 2, 3, 0>>, 24), Line4(<<10, 0, 0, 0>>, 8), Line4(<<30, 1, 0, 0>>, 16)>>,
      <<Line4(<<20, 0, 0, 0>>, 16)>> }

TreeResponses == {Listing(l) : l \in TreeServed} \cup {NotFound}

\* 10.0.0.1, 1.2.3.4, 20.0.5.5, 30.1.2.3, 8.8.8.8
TreeAsked == { <<2560, 1>>, <<258, 772>>, <<5120, 1285>>, <<7681, 515>>, <<2056, 2056>> }

InitTree ==
    /\ itree = NoTree
    /\ pc = "fetch"
    /\ tlines = <<>>
    /\ tindex = 0
    /\ refreshes = 1
    /\ history = [loaded |-> <<>>, loading |-> <<>>, completed |-> 0]
    /\ answer = [asked |-> FALSE, x |-> <<>>, result |-> "false", prev |-> <<>>,
                 new |-> <<>>, during |-> FALSE, completed |-> 0]
    /\ ipv4Index = <<>>
    /\ ipv6Index = <<>>
    /\ body4 = <<>>
    /\ cidrs = <<>>
    /\ subject = <<>>

\* lines 102-104: the interval timer calls updateList, which runs up to its await
TreeTick ==
    /\ pc = "idle"
    /\ refreshes < MaxRefresh
    /\ pc' = "fetch"
    /\ refreshes' = refreshes + 1
    /\ UNCHANGED <<ipv4Index, ipv6Index, body4, itree, tlines, tindex, cidrs, subject,
                   answer, history>>

\* lines 64-68, 76-78: the fetch or the read of its body rejects, and the catch logs it
TreeFetchRejects ==
    /\ pc = "fetch"
    /\ pc' = "idle"
    /\ UNCHANGED <<ipv4Index, ipv6Index, body4, itree, tlines, tindex, refreshes, cidrs,
                   subject, answer, history>>

\* lines 64-73 and 83-91: the fetch resolves with r, whatever its status; itree
\* is a new tree, and the first batch waits for its timer
TreeFetchResolves(r) ==
    /\ pc = "fetch"
    /\ itree' = [defined |-> TRUE, root |-> NullNode]
    /\ tlines' = TrimSplit(r.body)
    /\ tindex' = 0
    /\ pc' = "batch"
    /\ history' = [history EXCEPT !.loading = r.lines]
    /\ UNCHANGED <<ipv4Index, ipv6Index, body4, refreshes, cidrs, subject, answer>>

\* lines 86-97: the timer of a batch fires; after the last batch updateList ends
TreeBatch ==
    /\ pc = "batch"
    /\ itree' = [itree EXCEPT !.root = insertBatch(@, Slice(tlines, tindex, BatchSize), 1)]
    /\ tindex' = tindex + BatchSize
    /\ pc' = IF tindex + BatchSize < Len(tlines) THEN "batch" ELSE "idle"
    /\ history' = IF tindex + BatchSize < Len(tlines) THEN history
                  ELSE [loaded |-> history.loading, loading |-> <<>>,
                        completed |-> history.completed + 1]
    /\ UNCHANGED <<ipv4Index, ipv6Index, body4, tlines, refreshes, cidrs, subject, answer>>

\* lines 118-121: isVpn is called
TreeIsVpnCalled(x) ==
    /\ answer' = [asked |-> TRUE, x |-> x, result |-> modIsVpn(itree, AddrText(x)),
                  prev |-> history.loaded, new |-> history.loading,
                  during |-> (pc = "batch"), completed |-> history.completed]
    /\ UNCHANGED <<ipv4Index, ipv6Index, pc, body4, itree, tlines, tindex, refreshes, cidrs,
                   subject, history>>

NextTree ==
    \/ TreeTick
    \/ TreeFetchRejects
    \/ \E r \in TreeResponses : TreeFetchResolves(r)
    \/ TreeBatch
    \/ \E x \in TreeAsked : TreeIsVpnCalled(x)

SpecTree == InitTree /\ [][NextTree]_vars

----------------------------------------------------------------------------
(* part_001: one list, indexed and queried.  The lines of the list are      *)
(* drawn with the ranges they denote; the two builders are applied as       *)
(* lines 725-726 apply them, the list of the other family being empty.      *)
(* History keeps the indexes of the same list without its invalid lines.    *)

MaxLines == 2

\* "10.1.2.3/15", "1.2.3.0/24", "1.2.4.0/24", "1.2.3.128/25", "1.2.6.1/32",
\* "200.1.2.3/31", and two lines that are not valid
Pool4 ==
    { Line4(<<10, 1, 2, 3>>, 15), Line4(<<1, 2, 3, 0>>, 24), Line4(<<1, 2, 4, 0>>, 24),
      Line4(<<1, 2, 3, 128>>, 25), Line4(<<1, 2, 6, 1>>, 32),
      Line4(<<200, 1, 2, 3>>, 31),
      BadLine(<<49, 46, 50, 46, 51, 46, 52, 47>>), BadLine(<<49, 46, 50, 46, 51, 46, 52, 47, 51, 51>>) }

\* lists with "0.0.0.0/0", "128.0.0.0/1" and "10.0.0.0/8", with two addresses
\* one apart, and with lines that are not valid
ExtraLists4 ==
    { <<Line4(<<0, 0, 0, 0>>, 0)>>,
      <<Line4(<<1, 2, 3, 0>>, 24), Line4(<<128, 0, 0, 0>>, 1)>>,
      <<Line4(<<10, 0, 0, 0>>, 8), Line4(<<11, 0, 0, 0>>, 32)>>,
      <<Line4(<<1, 2, 6, 3>>, 32), Line4(<<1, 2, 6, 1>>, 32), Line4(<<1, 2, 5, 255>>, 32)>>,
      <<BadLine(<<49, 46, 50, 46, 51, 46, 52>>), Line4(<<1, 2, 3, 0>>, 24), BadLine(<<49, 46, 50, 46, 51, 47, 50, 52>>)>> }

\* "2001:db8:0:0:0:0:0:0/32", "2001:db8:1:.../48", "2001:db8:8000:.../48",
\* "2001:db8:4:0:0:0:0:5/128", "2001:0:.../16", "8000:0:.../1", and a line that
\* is not valid
Pool6 ==
    { Line(DocPrefix, 32), Line(<<8193, 3512, 1, 0, 0, 0, 0, 0>>, 48),
      Line(<<8193, 3512, 32768, 0, 0, 0, 0, 0>>, 48),
      Line(<<8193, 3512, 4, 0, 0, 0, 0, 5>>, 128),
      Line(<<8193, 0, 0, 0, 0, 0, 0, 0>>, 16), Line(<<32768, 0, 0, 0, 0, 0, 0, 0>>, 1),
      BadLine(<<50, 48, 48, 49, 58, 100, 98, 56, 58, 58, 47>>) }

\* lists with "0:0:0:0:0:0:0:0/0", with "2001:db8:9000:.../48", with two
\* addresses one apart, and with lines that are not valid
ExtraLists6 ==
    { <<Line(<<0, 0, 0, 0, 0, 0, 0, 0>>, 0)>>,
      <<Line(<<8193, 3512, 32768, 0, 0, 0, 0, 0>>, 48),
        Line(<<8193, 3512, 36864, 0, 0, 0, 0, 0>>, 48)>>,
      <<Line(<<8193, 3512, 4, 0, 0, 0, 0, 5>>, 128), Line(<<8193, 3512, 4, 0, 0, 0, 0, 7>>, 128),
        Line(<<8193, 3512, 2, 0, 0, 0, 0, 0>>, 48)>>,
      <<BadLine(<<50, 48, 48, 49, 58, 100, 98, 56, 58, 58>>), Line(DocPrefix, 32), BadLine(<<50, 48, 48, 49, 58, 100, 98, 56, 58, 58, 47, 49, 50, 57>>)>> }

Lists == SeqsUpTo(Pool4, MaxLines) \cup ExtraLists4 \cup SeqsUpTo(Pool6, MaxLines) \cup ExtraLists6

\* 77.1.2.3 and 9000::1
FixedAsked == { <<19713, 515>>, <<36864, 0, 0, 0, 0, 0, 0, 1>> }

\* the addresses at and next to the ends of the ranges of the valid lines
AskedOf(lines) ==
    FixedAsked \cup UNION { Around(lines[k]) : k \in {j \in 1..Len(lines) : lines[j].valid} }

InitIndex ==
    /\ cidrs \in Lists
    /\ ipv4Index = buildIpv4IndexFromCidrs(<<>>)
    /\ ipv6Index = buildIpv6IndexFromCidrs(<<>>)
    /\ pc = "load"
    /\ history = [clean4 |-> buildIpv4IndexFromCidrs(<<>>), clean6 |-> buildIpv6IndexFromCidrs(<<>>)]
    /\ answer = [asked |-> FALSE, x |-> <<>>, result |-> FALSE, clean |-> FALSE]
    /\ body4 = <<>>
    /\ itree = NoTree
    /\ tlines = <<>>
    /\ tindex = 0
    /\ refreshes = 0
    /\ subject = <<>>

\* the family of a list, by its first line: 4, 6 or 0
FamilyOf(lines) == IF lines = <<>> THEN 0 ELSE Dispatch(lines[1].text, 1)

\* the list as the fetch of the family would give it
ListOf(family, lines) == IF FamilyOf(lines) = family THEN lines ELSE <<>>

\* lines 725-726 on the lines of the list
BuildIndexes ==
    /\ pc = "load"
    /\ ipv4Index' = buildIpv4IndexFromCidrs(Texts(ListOf(4, cidrs)))
    /\ ipv6Index' = buildIpv6IndexFromCidrs(Texts(ListOf(6, cidrs)))
    /\ history' = [clean4 |-> buildIpv4IndexFromCidrs(Texts(ValidOnly(ListOf(4, cidrs)))),
                   clean6 |-> buildIpv6IndexFromCidrs(Texts(ValidOnly(ListOf(6, cidrs))))]
    /\ pc' = "ready"
    /\ UNCHANGED <<body4, itree, tlines, tindex, refreshes, cidrs, subject, answer>>

\* lines 744-752 on the built indexes
Ask(x) ==
    /\ pc = "ready"
    /\ answer' = [asked |-> TRUE, x |-> x,
                  result |-> isVpn(ipv4Index, ipv6Index, AddrText(x)),
                  clean |-> isVpn(history.clean4, history.clean6, AddrText(x))]
    /\ UNCHANGED <<ipv4Index, ipv6Index, pc, body4, itree, tlines, tindex, refreshes, cidrs,
                   subject, history>>

NextIndex ==
    \/ BuildIndexes
    \/ \E x \in AskedOf(cidrs) : Ask(x)

SpecIndex == InitIndex /\ [][NextIndex]_vars

----------------------------------------------------------------------------
(* part_001: texts handed to isVpn.  The indexes are those of a loaded     *)
(* list; an IPv6 address is drawn, and isVpn is called with its expanded   *)
(* text, with its other texts, and with texts that are not addresses.      *)
(* History keeps what the expanded text gave.                               *)

\* "0.0.0.0/14", "1.2.3.4/14" and "::/0"; "1.2.3.0/24" and "2001:db8::/32",
\* "0:0:0:0:0:ffff:102:300/120", "0:0:0:0:0:0:0:0/127"
Loads ==
    { [l4 |-> <<Line4(<<0, 0, 0, 0>>, 14), Line4(<<1, 2, 3, 4>>, 14)>>,
       l6 |-> <<Line(<<0, 0, 0, 0, 0, 0, 0, 0>>, 0)>>],
      [l4 |-> <<Line4(<<1, 2, 3, 0>>, 24)>>,
       l6 |-> <<Line(DocPrefix, 32), Line(<<0, 0, 0, 0, 0, 65535, 258, 768>>, 120),
                Line(<<0, 0, 0, 0, 0, 0, 0, 0>>, 127)>>] }

\* 2001:db8::1, 2001:db8:8000::5, ::ffff:1.2.3.4, ::, ::1, 1::,
\* fe80::202:b3ff:fe1e:8329, 2001:0:0:1::1, 2001:db9:0:0:1::, abcd:ef01:1234:5678:9abc:def0:1:a
Subjects ==
    { <<8193, 3512, 0, 0, 0, 0, 0, 1>>, <<8193, 3512, 32768, 0, 0, 0, 0, 5>>,
      <<0, 0, 0, 0, 0, 65535, 258, 772>>, <<0, 0, 0, 0, 0, 0, 0, 0>>,
      <<0, 0, 0, 0, 0, 0, 0, 1>>, <<1, 0, 0, 0, 0, 0, 0, 0>>,
      <<65152, 0, 0, 0, 514, 46079, 65054, 33577>>, <<8193, 0, 0, 1, 0, 0, 0, 1>>,
      <<8193, 3513, 0, 0, 1, 0, 0, 0>>,
      <<43981, 61185, 4660, 22136, 39612, 57072, 1, 10>> }

Kinds == {"short", "upper", "compressed", "dotted", "compressedDotted"}

\* a text of the address g that is not its expanded text
VariantText(kind, g) ==
    IF kind = "short" THEN Ipv6Short(g)
    ELSE IF kind = "upper" THEN UpperCase(Ipv6Compressed(g))
    ELSE IF kind = "compressed" THEN Ipv6Compressed(g)
    ELSE IF kind = "dotted" THEN Ipv6Dotted(g)
    ELSE Ipv6CompressedDotted(g)

\* texts without '.' or ':' before '/' or '%'
NoFamilyTexts ==
    { <<>>, <<97, 98, 99>>, <<49, 50, 51, 52, 53>>, <<47, 49, 46, 50, 46, 51, 46, 52>>, <<37, 49, 58, 50>>, <<108, 111, 99, 97, 108, 104, 111, 115, 116>>, <<49, 47, 50, 46, 51, 46, 52, 46, 53>> }

\* texts with a '.' first
DottedTexts ==
    { <<49, 46, 50, 46, 51>>, <<49, 46, 50, 46, 51, 46, 52, 46, 53>>, <<50, 53, 54, 46, 49, 46, 49, 46, 49>>, <<49, 46, 50, 46, 51, 46, 50, 53, 54>>, <<49, 46, 46, 50, 46, 51>>, <<97, 46, 98, 46, 99, 46, 100>>,
      <<49, 46, 50, 46, 51, 46, 52, 32>>, <<32, 49, 46, 50, 46, 51, 46, 52>>, <<49, 46, 50, 46, 51, 46, 45, 52>>, <<49, 46, 50, 46, 51, 46, 52, 58, 56, 48>>, <<45, 49, 46, 50, 46, 51, 46, 52>>, <<49, 46, 50, 46, 51, 46, 48, 120, 52>>,
      <<49, 46, 50, 46, 51, 46>>, <<49, 46, 50, 46, 51, 46, 52, 47, 50, 52>>, <<49, 46, 50, 46, 51, 46, 52, 37, 53>>, <<48, 48, 49, 46, 48, 48, 50, 46, 48, 48, 51, 46, 48, 48, 52>>, <<49, 46, 50, 46, 51, 46, 52>> }

\* texts with a ':' first
ColonTexts ==
    { <<58, 58, 58>>, <<49, 58, 50, 58, 51>>, <<49, 58, 50, 58, 51, 58, 52, 58, 53, 58, 54, 58, 55, 58, 56, 58, 57>>, <<49, 50, 51, 52, 53, 58, 58>>, <<103, 58, 58, 49>>, <<49, 58, 58, 50, 58, 58, 51>>, <<58, 58, 49, 46, 50, 46, 51>>,
      <<49, 58, 50, 58, 51, 58, 52, 58, 53, 58, 54, 58, 55, 58, 49, 46, 50, 46, 51, 46, 52>>, <<58, 49>>, <<49, 58>>, <<58, 58, 49, 32>>, <<50, 48, 48, 49, 58, 100, 98, 56, 58, 58, 49, 46, 50, 46, 51, 46, 50, 53, 54>>,
      <<50, 48, 48, 49, 58, 48, 100, 98, 56, 58, 48, 48, 48, 48, 58, 48, 48, 48, 48, 58, 48, 48, 48, 48, 58, 48, 48, 48, 48, 58, 48, 48, 48, 48, 58, 48, 48, 48, 103>>, <<102, 101, 56, 48, 58, 58, 49, 37, 101, 116, 104, 48>>, <<50, 48, 48, 49, 58, 100, 98, 56, 58, 58, 49, 47, 54, 52>>,
      <<49, 58, 50, 58, 51, 58, 52, 58, 53, 58, 54, 58, 55, 58, 58>>, <<58, 58>> }

\* the texts above that are addresses, or that the parsers take for one:
\* "1.2.3.", "1..2.3", "1.2.3.4/24", "1.2.3.4%5", "001.002.003.004", "1.2.3.4",
\* "fe80::1%eth0", "2001:db8::1/64", "1:2:3:4:5:6:7::", "::"
Addresses7 ==
    { <<49, 46, 46, 50, 46, 51>>,
      <<49, 46, 50, 46, 51, 46>>,
      <<49, 46, 50, 46, 51, 46, 52, 47, 50, 52>>,
      <<49, 46, 50, 46, 51, 46, 52, 37, 53>>,
      <<48, 48, 49, 46, 48, 48, 50, 46, 48, 48, 51, 46, 48, 48, 52>>,
      <<49, 46, 50, 46, 51, 46, 52>>,
      <<102, 101, 56, 48, 58, 58, 49, 37, 101, 116, 104, 48>>,
      <<50, 48, 48, 49, 58, 100, 98, 56, 58, 58, 49, 47, 54, 52>>,
      <<49, 58, 50, 58, 51, 58, 52, 58, 53, 58, 54, 58, 55, 58, 58>>,
      <<58, 58>> }

Texts7 == NoFamilyTexts \cup DottedTexts \cup ColonTexts

NotAddresses == Texts7 \ Addresses7

\* whether the parser of the family the dispatcher picks returns null
ParseFails(text, family) ==
    IF family = 4 THEN ipv4ToInt(text).isNull
    ELSE IF family = 6 THEN ipv6ToParts(text).isNull
    ELSE TRUE

InitParse ==
    /\ cidrs \in Loads
    /\ ipv4Index = buildIpv4IndexFromCidrs(Texts(cidrs.l4))
    /\ ipv6Index = buildIpv6IndexFromCidrs(Texts(cidrs.l6))
    /\ subject \in Subjects
    /\ pc = "ready"
    /\ history = [asked |-> FALSE, fast |-> FALSE, parts |-> NullParts, result |-> FALSE]
    /\ answer = [asked |-> FALSE, kind |-> "", text |-> <<>>, fast |-> FALSE,
                 family |-> 0, fails |-> FALSE, parts |-> NullParts, result |-> FALSE]
    /\ body4 = <<>>
    /\ itree = NoTree
    /\ tlines = <<>>
    /\ tindex = 0
    /\ refreshes = 0

\* lines 744-752 on the 39-character text of the subject
AskExpanded ==
    /\ history' = [asked  |-> TRUE,
                   fast   |-> IsExpandedForm(Ipv6Expanded(subject), Len(Ipv6Expanded(subject))),
                   parts  |-> ipv6ToParts(Ipv6Expanded(subject)),
                   result |-> isVpn(ipv4Index, ipv6Index, Ipv6Expanded(subject))]
    /\ UNCHANGED <<ipv4Index, ipv6Index, pc, body4, itree, tlines, tindex, refreshes, cidrs,
                   subject, answer>>

\* what a call of isVpn with the text gives, and how the text was read
AnswerTo(kind, text, family) ==
    [asked |-> TRUE, kind |-> kind, text |-> text,
     fast |-> IsExpandedForm(text, AddressEnd(text, 0)),
     family |-> family, fails |-> ParseFails(text, family),
     parts |-> ipv6ToParts(text),
     result |-> isVpn(ipv4Index, ipv6Index, text)]

\* lines 744-752 on another text of the subject
AskVariant(kind) ==
    /\ answer' = AnswerTo(kind, VariantText(kind, subject), 6)
    /\ UNCHANGED <<ipv4Index, ipv6Index, pc, body4, itree, tlines, tindex, refreshes, cidrs,
                   subject, history>>

\* lines 744-752 on any text
AskText(t) ==
    /\ answer' = AnswerTo("text", t, Dispatch(t, 1))
    /\ UNCHANGED <<ipv4Index, ipv6Index, pc, body4, itree, tlines, tindex, refreshes, cidrs,
                   subject, history>>

NextParse ==
    \/ AskExpanded
    \/ \E kind \in Kinds : AskVariant(kind)
    \/ \E t \in Texts7 : AskText(t)

SpecParse == InitParse /\ [][NextParse]_vars

----------------------------------------------------------------------------
(* part_001: the range mergers on their own.  A collection of ranges with   *)
(* start <= end and unsigned words is drawn; the merger of its width is     *)
(* applied to it, to its own result, and to the collection together with a  *)
(* sub-collection of it.                                                     *)

MaxRanges == 3

Range32(s, e) == [start |-> s, end |-> e]

\* the four 32-bit words of eight 16-bit groups
WordsOf(g) == <<<<g[1], g[2]>>, <<g[3], g[4]>>, <<g[5], g[6]>>, <<g[7], g[8]>>>>

Range128(s, e) == [start |-> WordsOf(s), end |-> WordsOf(e)]

\* the 16-bit groups of a 32-bit number or of four 32-bit words
GroupsOf(a) ==
    IF Len(a) = 2 THEN a
    ELSE <<a[1][1], a[1][2], a[2][1], a[2][2], a[3][1], a[3][2], a[4][1], a[4][2]>>

\* [0,9], [10,19], [11,19], [5,30], two ranges that meet at 0x0000FFFF/0x00010000,
\* one with the top bit set, and ranges that end at 0xFFFFFFFF
RangePool32 ==
    { Range32(<<0, 0>>, <<0, 9>>), Range32(<<0, 10>>, <<0, 19>>), Range32(<<0, 11>>, <<0, 19>>),
      Range32(<<0, 5>>, <<0, 30>>),
      Range32(<<0, 65530>>, <<0, 65535>>), Range32(<<1, 0>>, <<1, 5>>),
      Range32(<<32768, 0>>, <<32768, 65535>>),
      Range32(<<65535, 65520>>, AllOnes), Range32(Zero, AllOnes), Range32(AllOnes, AllOnes) }

\* ::5, ::6-::9, two ranges that meet at a word boundary, 2001:db8::/32 and
\* the start of 2001:db9::, one with the top bit set, and ranges that end at
\* ffff:ffff:ffff:ffff:ffff:ffff:ffff:ffff
RangePool128 ==
    { Range128(<<0, 0, 0, 0, 0, 0, 0, 5>>, <<0, 0, 0, 0, 0, 0, 0, 5>>),
      Range128(<<0, 0, 0, 0, 0, 0, 0, 6>>, <<0, 0, 0, 0, 0, 0, 0, 9>>),
      Range128(<<0, 0, 0, 0, 0, 0, 65535, 65520>>, <<0, 0, 0, 0, 0, 0, 65535, 65535>>),
      Range128(<<0, 0, 0, 0, 0, 1, 0, 0>>, <<0, 0, 0, 0, 0, 1, 0, 5>>),
      Range128(DocPrefix, <<8193, 3512, 65535, 65535, 65535, 65535, 65535, 65535>>),
      Range128(<<8193, 3513, 0, 0, 0, 0, 0, 0>>, <<8193, 3513, 0, 0, 0, 0, 0, 65535>>),
      Range128(<<32768, 0, 0, 0, 0, 0, 0, 0>>, <<32768, 0, 0, 0, 0, 0, 0, 65535>>),
      Range128(<<65535, 0, 0, 0, 0, 0, 0, 0>>, <<65535, 65535, 65535, 65535, 65535, 65535, 65535, 65535>>),
      Range128(<<0, 0, 0, 0, 0, 0, 0, 0>>, <<65535, 65535, 65535, 65535, 65535, 65535, 65535, 65535>>) }

\* the ranges of s whose position is in sel, in their order
RECURSIVE Pick(_, _, _)
Pick(s, sel, k) ==
    IF k > Len(s) THEN <<>>
    ELSE (IF k \in sel THEN <<s[k]>> ELSE <<>>) \o Pick(s, sel, k + 1)

NotMerged == [asked |-> FALSE, wide |-> FALSE, merged |-> <<>>, again |-> <<>>, joined |-> <<>>, sub |-> <<>>]

InitMerge ==
    /\ \/ pc = "ranges32" /\ subject \in SeqsUpTo(RangePool32, MaxRanges)
       \/ pc = "ranges128" /\ subject \in SeqsUpTo(RangePool128, MaxRanges)
    /\ answer = NotMerged
    /\ history = <<>>
    /\ cidrs = <<>>
    /\ ipv4Index = buildIpv4IndexFromCidrs(<<>>)
    /\ ipv6Index = buildIpv6IndexFromCidrs(<<>>)
    /\ body4 = <<>>
    /\ itree = NoTree
    /\ tlines = <<>>
    /\ tindex = 0
    /\ refreshes = 0

\* what the mergers gave, given the result for the collection itself
Merged(wide, merged, again, joined, sub) ==
    [asked |-> TRUE, wide |-> wide, merged |-> merged, again |-> again, joined |-> joined, sub |-> sub]

\* mergeRanges32 on the collection, on its result, and on the collection with sub
Merge32(sub) ==
    /\ pc = "ranges32"
    /\ answer' = Merged(FALSE, mergeRanges32(subject), mergeRanges32(mergeRanges32(subject)),
                        mergeRanges32(subject \o sub), sub)
    /\ pc' = "merged"
    /\ UNCHANGED <<ipv4Index, ipv6Index, body4, itree, tlines, tindex, refreshes, cidrs,
                   subject, history>>

\* mergeRanges128 on the collection, on its result, and on the collection with sub
Merge128(sub) ==
    /\ pc = "ranges128"
    /\ answer' = Merged(TRUE, mergeRanges128(subject), mergeRanges128(mergeRanges128(subject)),
                        mergeRanges128(subject \o sub), sub)
    /\ pc' = "merged"
    /\ UNCHANGED <<ipv4Index, ipv6Index, body4, itree, tlines, tindex, refreshes, cidrs,
                   subject, history>>

NextMerge ==
    \/ \E sel \in SUBSET (1..Len(subject)) : Merge32(Pick(subject, sel, 1))
    \/ \E sel \in SUBSET (1..Len(subject)) : Merge128(Pick(subject, sel, 1))

SpecMerge == InitMerge /\ [][NextMerge]_vars

\* start <= end for every range, in unsigned order
WellFormed(rs) == \A i \in 1..Len(rs) : LexLe(GroupsOf(rs[i].start), GroupsOf(rs[i].end))

\* sorted by start, and each start more than one past the end before it
Gapped(rs) ==
    \A i \in 1..(Len(rs) - 1) :
        /\ HasSucc(GroupsOf(rs[i].end))
        /\ LexLt(Succ(GroupsOf(rs[i].end)), GroupsOf(rs[i + 1].start))

Within(p, rs) ==
    \E i \in 1..Len(rs) : LexLe(GroupsOf(rs[i].start), p) /\ LexLe(p, GroupsOf(rs[i].end))

\* the ends of the ranges and the values next to them
EndsOf(rs) ==
    UNION { Around([lo |-> GroupsOf(rs[i].start), hi |-> GroupsOf(rs[i].end)]) : i \in 1..Len(rs) }

\* ms holds the values of rs and no other, at the ends of both and next to them
SameUnion(rs, ms) == \A p \in EndsOf(rs) \cup EndsOf(ms) : Within(p, rs) <=> Within(p, ms)

----------------------------------------------------------------------------
(* part_001: the conversions of a line to a range on their own.  An address *)
(* is drawn; ipv4CidrToRange or ipv6CidrToRange is applied to its text with *)
(* every prefix of its family.                                              *)

\* 10.0.0.0, 10.1.2.3, 1.2.3.4, 0.0.0.0, 128.0.0.1, 170.85.170.85,
\* 192.168.255.7 and 255.255.255.255
RangeSubjects4 ==
    { <<2560, 0>>, <<2561, 515>>, <<258, 772>>, <<0, 0>>, <<32768, 1>>, <<43605, 43605>>,
      <<49320, 65287>>, <<65535, 65535>> }

\* ::, 2001:db8::, 2001:db8:8000::1, 8000::, 1234:5678:9abc:def0:8421:c3a5:5a3c:f00f,
\* 5555:aaaa:5555:aaaa:5555:aaaa:5555:aaaa and ffff:ffff:ffff:ffff:ffff:ffff:ffff:ffff
RangeSubjects6 ==
    { <<0, 0, 0, 0, 0, 0, 0, 0>>, DocPrefix, <<8193, 3512, 32768, 0, 0, 0, 0, 1>>,
      <<32768, 0, 0, 0, 0, 0, 0, 0>>,
      <<4660, 22136, 39612, 57072, 33825, 50085, 23100, 61455>>,
      <<21845, 43690, 21845, 43690, 21845, 43690, 21845, 43690>>,
      <<65535, 65535, 65535, 65535, 65535, 65535, 65535, 65535>> }

NotConverted == [asked |-> FALSE, prefix |-> 0, range |-> NullRange]

InitRange ==
    /\ subject \in RangeSubjects4 \cup RangeSubjects6
    /\ answer = NotConverted
    /\ pc = "convert"
    /\ history = <<>>
    /\ cidrs = <<>>
    /\ ipv4Index = buildIpv4IndexFromCidrs(<<>>)
    /\ ipv6Index = buildIpv6IndexFromCidrs(<<>>)
    /\ body4 = <<>>
    /\ itree = NoTree
    /\ tlines = <<>>
    /\ tindex = 0
    /\ refreshes = 0

\* the line "address/prefix"
CidrText(g, prefix) == AddrText(g) \o <<47>> \o DecDigits(prefix)

\* ipv4CidrToRange on the text of the address with the prefix
Convert4(prefix) ==
    /\ pc = "convert"
    /\ Len(subject) = 2
    /\ answer' = [asked |-> TRUE, prefix |-> prefix, range |-> ipv4CidrToRange(CidrText(subject, prefix))]
    /\ cidrs' = CidrText(subject, prefix)
    /\ pc' = "converted"
    /\ UNCHANGED <<ipv4Index, ipv6Index, body4, itree, tlines, tindex, refreshes, subject, history>>

\* ipv6CidrToRange on the text of the address with the prefix
Convert6(prefix) ==
    /\ pc = "convert"
    /\ Len(subject) = 8
    /\ answer' = [asked |-> TRUE, prefix |-> prefix, range |-> ipv6CidrToRange(CidrText(subject, prefix))]
    /\ cidrs' = CidrText(subject, prefix)
    /\ pc' = "converted"
    /\ UNCHANGED <<ipv4Index, ipv6Index, body4, itree, tlines, tindex, refreshes, subject, history>>

NextRange ==
    \/ \E prefix \in 0..32 : Convert4(prefix)
    \/ \E prefix \in 0..128 : Convert6(prefix)

SpecRange == InitRange /\ [][NextRange]_vars

\* every group is a 16-bit unsigned value
Unsigned(g) == \A k \in 1..Len(g) : g[k] >= 0 /\ g[k] <= 65535

----------------------------------------------------------------------------
(* part_001: the meta table on its own.  A sequence of distinct keys is     *)
(* drawn, each with a descriptor of its own; buildMetaTable is applied to   *)
(* the entries, and metaLookup is called with keys that are and that are    *)
(* not among them.                                                          *)

MaxKeys == 4

\* 0, 3, 11 and 7, 15, 0x80000007, 0xFFFFFFFF, which hash to the last slot of
\* a table of 4 or 8 slots, and 0x20010db8
KeyPool ==
    { <<0, 0>>, <<0, 3>>, <<0, 7>>, <<0, 11>>, <<0, 15>>, <<8193, 3512>>, <<32768, 7>>, AllOnes }

Distinct(s) == \A i, j \in 1..Len(s) : i # j => s[i] # s[j]

\* the entry of the key at position i, its descriptor unlike any other's
EntryOf(key, i) == [key |-> key, type |-> i % 2, offset |-> NumOfInt(10 * i), count |-> NumOfInt(i + 1)]

EntriesOf(keys) == [i \in 1..Len(keys) |-> EntryOf(keys[i], i)]

\* the fields of the index that hold the meta table (lines 666-672)
MetaIndexOf(info) ==
    [metaKeys |-> info.keys, metaTypes |-> info.types, metaOffsets |-> info.offsets,
     metaCounts |-> info.counts, metaTable |-> info.table, metaMask |-> info.mask]

InitMeta ==
    /\ subject \in {s \in SeqsUpTo(KeyPool, MaxKeys) : Distinct(s)}
    /\ pc = "entries"
    /\ history = MetaIndexOf(buildMetaTable(<<>>))
    /\ answer = [asked |-> FALSE, p0 |-> Zero, idx |-> -1]
    /\ cidrs = <<>>
    /\ ipv4Index = buildIpv4IndexFromCidrs(<<>>)
    /\ ipv6Index = buildIpv6IndexFromCidrs(<<>>)
    /\ body4 = <<>>
    /\ itree = NoTree
    /\ tlines = <<>>
    /\ tindex = 0
    /\ refreshes = 0

\* buildMetaTable on the entries of the keys
BuildMeta ==
    /\ pc = "entries"
    /\ history' = MetaIndexOf(buildMetaTable(EntriesOf(subject)))
    /\ pc' = "table"
    /\ UNCHANGED <<ipv4Index, ipv6Index, body4, itree, tlines, tindex, refreshes, cidrs,
                   subject, answer>>

\* metaLookup on the table
Lookup(p0) ==
    /\ pc = "table"
    /\ answer' = [asked |-> TRUE, p0 |-> p0, idx |-> metaLookup(history, p0)]
    /\ UNCHANGED <<ipv4Index, ipv6Index, pc, body4, itree, tlines, tindex, refreshes, cidrs,
                   subject, history>>

NextMeta ==
    \/ BuildMeta
    \/ \E p0 \in KeyPool : Lookup(p0)

SpecMeta == InitMeta /\ [][NextMeta]_vars

\* the position of key among keys, 0 if it is not there
PositionOf(key, keys) ==
    IF \E i \in 1..Len(keys) : keys[i] = key THEN CHOOSE i \in 1..Len(keys) : keys[i] = key ELSE 0

PowerOfTwo(n) == \E k \in 0..16 : n = 2 ^ k

----------------------------------------------------------------------------
(* part_001: the two parsers on their own.  A text is drawn, well formed or *)
(* not, and given an end: nothing, a '/' with a prefix, or a '%' with a     *)
(* zone; ipv4ToInt or ipv6ToParts is applied to it.                         *)

\* "1.2.3.4", "255.255.255.255", "0.0.0.0", "001.002.003.004", "10.1.2.3" and
\* texts that are not four octets
ParseTexts4 ==
    { <<49, 46, 50, 46, 51, 46, 52>>, <<50, 53, 53, 46, 50, 53, 53, 46, 50, 53, 53, 46, 50, 53, 53>>, <<48, 46, 48, 46, 48, 46, 48>>, <<48, 48, 49, 46, 48, 48, 50, 46, 48, 48, 51, 46, 48, 48, 52>>, <<49, 48, 46, 49, 46, 50, 46, 51>>,
      <<49, 46, 50, 46, 51>>, <<49, 46, 50, 46, 51, 46, 52, 46, 53>>, <<50, 53, 54, 46, 49, 46, 49, 46, 49>>, <<49, 46, 50, 46, 51, 46, 50, 53, 54>>, <<49, 46, 50, 46, 51, 46, 49, 48, 48, 48>>, <<49, 46, 46, 50, 46, 51>>, <<49, 46, 50, 46, 51, 46>>,
      <<46, 49, 46, 50, 46, 51>>, <<46, 46, 46>>, <<97, 46, 98, 46, 99, 46, 100>>, <<49, 46, 50, 46, 51, 46, 52, 32>>, <<32, 49, 46, 50, 46, 51, 46, 52>>, <<49, 46, 50, 46, 51, 46, 45, 52>>, <<49, 46, 50, 46, 51, 46, 48, 120, 52>>,
      <<49, 44, 50, 46, 51, 46, 52>>, <<49, 50, 51, 52>>, <<49, 46, 50, 46, 51, 46, 52, 58, 56, 48>>, <<>> }

\* "1:2:3:4:5:6:7:8", "::", "::1", "2001:db8::", an expanded text,
\* "1:2:3:4:5:6:7::", "::ffff:1.2.3.4", "1:2:3:4:5:6:1.2.3.4", "FE80::A" and
\* texts that are not eight groups
ParseTexts6 ==
    { <<49, 58, 50, 58, 51, 58, 52, 58, 53, 58, 54, 58, 55, 58, 56>>, <<58, 58>>, <<58, 58, 49>>, <<50, 48, 48, 49, 58, 100, 98, 56, 58, 58>>,
      <<50, 48, 48, 49, 58, 48, 100, 98, 56, 58, 48, 48, 48, 48, 58, 48, 48, 48, 48, 58, 48, 48, 48, 48, 58, 48, 48, 48, 48, 58, 48, 48, 48, 48, 58, 48, 48, 48, 49>>, <<49, 58, 50, 58, 51, 58, 52, 58, 53, 58, 54, 58, 55, 58, 58>>, <<58, 58, 102, 102, 102, 102, 58, 49, 46, 50, 46, 51, 46, 52>>,
      <<49, 58, 50, 58, 51, 58, 52, 58, 53, 58, 54, 58, 49, 46, 50, 46, 51, 46, 52>>, <<70, 69, 56, 48, 58, 58, 65>>,
      <<49, 50, 51, 52, 53, 58, 58>>, <<49, 58, 50, 58, 51, 58, 52, 58, 53, 58, 54, 58, 55, 58, 49, 50, 51, 52, 53>>, <<103, 58, 58, 49>>, <<58, 58, 49, 32>>, <<49, 58, 58, 120>>,
      <<50, 48, 48, 49, 58, 48, 100, 98, 56, 58, 48, 48, 48, 48, 58, 48, 48, 48, 48, 58, 48, 48, 48, 48, 58, 48, 48, 48, 48, 58, 48, 48, 48, 48, 58, 48, 48, 48, 103>>,
      <<49, 58, 58, 50, 58, 58, 51>>, <<58, 58, 49, 58, 58>>, <<58, 49, 58, 50, 58, 51, 58, 52, 58, 53, 58, 54, 58, 55, 58, 56>>, <<58, 49, 58, 58, 50>>, <<49, 58, 50, 58, 51, 58, 52, 58, 53, 58, 54, 58, 55, 58, 56, 58>>, <<49, 58, 58, 50, 58>>,
      <<58>>, <<49, 58, 50, 58, 51>>, <<49, 58, 50, 58, 51, 58, 52, 58, 53, 58, 54, 58, 55>>, <<49, 58, 50, 58, 51, 58, 52, 58, 53, 58, 54, 58, 55, 58, 56, 58, 57>>, <<49, 58, 50, 58, 51, 58, 52, 58, 53, 58, 54, 58, 55, 58, 56, 58, 58, 57>>,
      <<49, 58, 50, 58, 51, 58, 52, 58, 53, 58, 54, 58, 55, 58, 49, 46, 50, 46, 51, 46, 52>>, <<49, 58, 50, 58, 51, 58, 52, 58, 53, 58, 54, 58, 55, 58, 56, 58, 57, 58, 58>> }

\* what may follow the address: nothing, "/24" or "%eth0"
Endings == { <<>>, <<47, 50, 52>>, <<37, 101, 116, 104, 48>> }

NotParsed == [asked |-> FALSE, family |-> 0, isNull |-> TRUE, value |-> <<>>]

InitText ==
    /\ \/ pc = "text4" /\ subject \in {t \o e : t \in ParseTexts4, e \in Endings}
       \/ pc = "text6" /\ subject \in {t \o e : t \in ParseTexts6, e \in Endings}
    /\ answer = NotParsed
    /\ history = <<>>
    /\ cidrs = <<>>
    /\ ipv4Index = buildIpv4IndexFromCidrs(<<>>)
    /\ ipv6Index = buildIpv6IndexFromCidrs(<<>>)
    /\ body4 = <<>>
    /\ itree = NoTree
    /\ tlines = <<>>
    /\ tindex = 0
    /\ refreshes = 0

\* what a parser returned
Parsed(family, isNull, value) == [asked |-> TRUE, family |-> family, isNull |-> isNull, value |-> value]

\* ipv4ToInt on the text
Parse4 ==
    /\ pc = "text4"
    /\ answer' = Parsed(4, ipv4ToInt(subject).isNull, ipv4ToInt(subject).v)
    /\ pc' = "parsed"
    /\ UNCHANGED <<ipv4Index, ipv6Index, body4, itree, tlines, tindex, refreshes, cidrs,
                   subject, history>>

\* ipv6ToParts on the text
Parse6 ==
    /\ pc = "text6"
    /\ answer' = Parsed(6, ipv6ToParts(subject).isNull, ipv6ToParts(subject).parts)
    /\ pc' = "parsed"
    /\ UNCHANGED <<ipv4Index, ipv6Index, body4, itree, tlines, tindex, refreshes, cidrs,
                   subject, history>>

NextText ==
    \/ Parse4
    \/ Parse6

SpecText == InitText /\ [][NextText]_vars

\* the text before the first '/' or '%'
AddressPart(t) ==
    IF \E i \in 1..Len(t) : t[i] \in {47, 37}
    THEN SubSeq(t, 1, (CHOOSE i \in 1..Len(t) : t[i] \in {47, 37} /\ \A j \in 1..(i - 1) : t[j] \notin {47, 37}) - 1)
    ELSE t

RECURSIVE DecimalOf(_)
DecimalOf(d) == IF d = <<>> THEN 0 ELSE 10 * DecimalOf(SubSeq(d, 1, Len(d) - 1)) + (d[Len(d)] - 48)

\* a non-empty run of decimal digits with a value of at most 255
IsOctet(d) == d # <<>> /\ Len(d) <= 6 /\ (\A i \in 1..Len(d) : IsDigit(d[i])) /\ DecimalOf(d) <= 255

\* exactly four octets separated by three dots, and nothing else
FourOctets(a) == Len(Split(a, 46)) = 4 /\ \A k \in 1..4 : IsOctet(Split(a, 46)[k])

IsHexDigit(c) == (c >= 48 /\ c <= 57) \/ (c >= 65 /\ c <= 70) \/ (c >= 97 /\ c <= 102)

Dotted(s) == \E i \in 1..Len(s) : s[i] = 46

\* a hex group of more than 4 digits
LongGroup(a) == \E k \in 1..Len(Split(a, 58)) : Len(Split(a, 58)[k]) > 4 /\ ~Dotted(Split(a, 58)[k])

\* a character that is no hex digit, ':' or '.'
NonHexChar(a) == \E i \in 1..Len(a) : ~IsHexDigit(a[i]) /\ a[i] \notin {58, 46}

\* the positions where "::" starts
DoubleColons(a) == {i \in 1..(Len(a) - 1) : a[i] = 58 /\ a[i + 1] = 58}

\* a ':' at an end of the text that is not part of "::"
LeadingColon(a) == a # <<>> /\ a[1] = 58 /\ 1 \notin DoubleColons(a)

TrailingColon(a) == a # <<>> /\ a[Len(a)] = 58 /\ (Len(a) - 1) \notin DoubleColons(a)

\* the number of 16-bit segments written in the text: one for a hex group,
\* two for a dotted tail
RECURSIVE SegmentsOf(_)
SegmentsOf(pieces) ==
    IF pieces = <<>> THEN 0
    ELSE (IF Head(pieces) = <<>> THEN 0 ELSE IF Dotted(Head(pieces)) THEN 2 ELSE 1)
         + SegmentsOf(Tail(pieces))

\* the segments cannot come to eight: not eight without "::", more than eight with it
WrongCount(a) ==
    IF DoubleColons(a) = {} THEN SegmentsOf(Split(a, 58)) # 8 ELSE SegmentsOf(Split(a, 58)) > 8

Malformed6(a) ==
    \/ LongGroup(a)
    \/ NonHexChar(a)
    \/ LeadingColon(a)
    \/ TrailingColon(a)
    \/ Cardinality(DoubleColons(a)) > 1
    \/ WrongCount(a)

----------------------------------------------------------------------------
(* src/mod.js: the interval tree on its own, next to the linear scan of     *)
(* part_000.  A sequence of intervals with start <= end is drawn, some of   *)
(* them the ranges ipv4CidrToRange gives for a line; they are inserted one  *)
(* by one, and a point is looked up in the tree and in the list of the      *)
(* intervals inserted so far.                                               *)

MaxIntervals == 3

\* part_000, line 26: some range of the list holds the point
scanIsVpn(ipv4BinaryRanges, ipBinary) ==
    \E k \in 1..Len(ipv4BinaryRanges) :
        JsLe(ipv4BinaryRanges[k].start, ipBinary) /\ JsLe(ipBinary, ipv4BinaryRanges[k].end)

Interval(a, b) == [start |-> NumOfInt(a), end |-> NumOfInt(b)]

\* [0,9], [10,19], [5,30], [5,7], [40,50], and the ranges of "10.1.0.0/16"
\* and of "200.1.2.0/24", whose numbers are negative
IntervalPool ==
    { Interval(0, 9), Interval(10, 19), Interval(5, 30), Interval(5, 7), Interval(40, 50),
      modIpv4CidrToRange(<<49, 48, 46, 49, 46, 48, 46, 48, 47, 49, 54>>), modIpv4CidrToRange(<<50, 48, 48, 46, 49, 46, 50, 46, 48, 47, 50, 52>>) }

\* points in, between and beyond the intervals, and the numbers of
\* "10.1.2.3", "10.2.0.0", "200.1.2.255" and "200.1.3.0"
PointPool ==
    { NumOfInt(-1), NumOfInt(0), NumOfInt(4), NumOfInt(8), NumOfInt(10), NumOfInt(20),
      NumOfInt(31), NumOfInt(35), NumOfInt(45), NumOfInt(51),
      ipToBinary(<<49, 48, 46, 49, 46, 50, 46, 51>>), ipToBinary(<<49, 48, 46, 50, 46, 48, 46, 48>>),
      ipToBinary(<<50, 48, 48, 46, 49, 46, 50, 46, 50, 53, 53>>), ipToBinary(<<50, 48, 48, 46, 49, 46, 51, 46, 48>>) }

InitInsert ==
    /\ tlines \in SeqsUpTo(IntervalPool, MaxIntervals)
    /\ tindex = 0
    /\ itree = [defined |-> TRUE, root |-> NullNode]
    /\ pc = "insert"
    /\ answer = [asked |-> FALSE, point |-> Zero, result |-> FALSE, scan |-> FALSE]
    /\ history = <<>>
    /\ subject = <<>>
    /\ cidrs = <<>>
    /\ ipv4Index = <<>>
    /\ ipv6Index = <<>>
    /\ body4 = <<>>
    /\ refreshes = 0

\* itree.insert(range) for the next interval
InsertNext ==
    /\ pc = "insert"
    /\ tindex < Len(tlines)
    /\ itree' = [itree EXCEPT !.root = insert(@, tlines[tindex + 1])]
    /\ tindex' = tindex + 1
    /\ UNCHANGED <<ipv4Index, ipv6Index, pc, body4, tlines, refreshes, cidrs, subject,
                   answer, history>>

\* itree.query(point), and the scan of part_000 over the intervals inserted
QueryPoint(point) ==
    /\ pc = "insert"
    /\ answer' = [asked |-> TRUE, point |-> point, result |-> query(itree.root, point),
                  scan |-> scanIsVpn(SubSeq(tlines, 1, tindex), point)]
    /\ UNCHANGED <<ipv4Index, ipv6Index, pc, body4, itree, tlines, tindex, refreshes, cidrs,
                   subject, history>>

NextInsert ==
    \/ InsertNext
    \/ \E point \in PointPool : QueryPoint(point)

SpecInsert == InitInsert /\ [][NextInsert]_vars

\* the intervals kept in the subtree of node
RECURSIVE IntervalsIn(_)
IntervalsIn(node) ==
    IF node.isNull THEN {}
    ELSE {node.interval} \cup IntervalsIn(node.left) \cup IntervalsIn(node.right)

\* every node's max is the largest end in its subtree
RECURSIVE MaxIsLargestEnd(_)
MaxIsLargestEnd(node) ==
    \/ node.isNull
    \/ /\ \E i \in IntervalsIn(node) : i.end = node.max
       /\ \A i \in IntervalsIn(node) : NumLe(i.end, node.max)
       /\ MaxIsLargestEnd(node.left)
       /\ MaxIsLargestEnd(node.right)

\* starts to the left are below the node's, starts to the right are not
RECURSIVE OrderedByStart(_)
OrderedByStart(node) ==
    \/ node.isNull
    \/ /\ \A i \in IntervalsIn(node.left) : NumLt(i.start, node.interval.start)
       /\ \A i \in IntervalsIn(node.right) : NumLe(node.interval.start, i.start)
       /\ OrderedByStart(node.left)
       /\ OrderedByStart(node.right)

----------------------------------------------------------------------------
(* The claims.  Each is stated on the answers and the history kept by the   *)
(* specification it is checked under.                                       *)

\* C1 (SpecIndex): once the index is built from a list, isVpn is true for every
\* IPv4 address within the range of a valid IPv4 line of the list, the first
\* and the last address of the range included, whatever the other lines and
\* their order.
C1_Ipv4Inclusion ==
    (answer.asked /\ Len(answer.x) = 2 /\ Covered(answer.x, cidrs)) => answer.result

\* the last address of the range of the first of two lines, outside the
\* second line, was asked and answered true
C1_Witness ==
    /\ answer.asked
    /\ Len(cidrs) = 2
    /\ cidrs[1].valid
    /\ Len(answer.x) = 2
    /\ cidrs[1].lo # cidrs[1].hi
    /\ answer.x = cidrs[1].hi
    /\ ~InLine(answer.x, cidrs[2])
    /\ answer.result

\* C2 (SpecIndex): once the index is built from a list, isVpn is true for every
\* IPv6 address within the range of a valid IPv6 line of the list, whether the
\* range is kept as a super range or within one bucket.
C2_Ipv6Inclusion ==
    (answer.asked /\ Len(answer.x) = 8 /\ Covered(answer.x, cidrs)) => answer.result

\* C3 (SpecIndex): for a list of valid lines, isVpn is false for every address
\* that lies within the range of none of them.
C3_NoFalsePositives ==
    (/\ answer.asked
     /\ \A k \in 1..Len(cidrs) : cidrs[k].valid
     /\ ~Covered(answer.x, cidrs)) => ~answer.result

\* C4 (Spec): when a call of updateList has ended in a failure of its data
\* source (a rejection, a non-2xx response, a body that is no list), the two
\* indexes are what they were before the call.
C4_FailedRefreshUnobservable ==
    (history.ended > 0 /\ history.failed) => ~history.changed

\* C5 (Spec): wherever isVpn can be called, the two indexes are those built
\* from the two lists of one and the same call of updateList, and so are the
\* indexes every answer came from.
C5_AtomicPair ==
    /\ history.loaded =>
          /\ history.gen4 = history.gen6
          /\ ipv4Index = buildIpv4IndexFromCidrs(history.src4)
          /\ ipv6Index = buildIpv6IndexFromCidrs(history.src6)
    /\ answer.asked => answer.gen4 = answer.gen6

\* isVpn was called while the second call of updateList awaited the IPv6 list,
\* the IPv4 list being already there, and answered from the indexes of the
\* first call
C5_Witness ==
    /\ answer.asked
    /\ answer.at = "await6"
    /\ refreshes = 2
    /\ answer.gen4 = 1
    /\ answer.gen6 = 1
    /\ answer.result

\* C6 (SpecTree): during a refresh of src/mod.js, isVpn is true for every
\* address within a line of the list loaded before and within a line of the
\* list being loaded.
C6_TreeRefreshAtomic ==
    (/\ answer.asked
     /\ answer.during
     /\ Covered(answer.x, answer.prev)
     /\ Covered(answer.x, answer.new)) => answer.result = "true"

\* C7 (SpecParse): isVpn returns a boolean for every text, and false when the
\* text has no '.' or ':' before its first '/' or '%', when the parser of the
\* family picked returns its failure value, and when the text is one of those
\* known not to be addresses.
C7_QueryErrorsNotSurfaced ==
    answer.asked =>
        /\ answer.result \in BOOLEAN
        /\ (answer.family = 0 \/ answer.fails \/ answer.text \in NotAddresses) => ~answer.result

\* a text with a '.' that is no address was asked while the lists "0.0.0.0/14"
\* and "1.2.3.4/14" were loaded, and answered false
C7_Witness ==
    /\ answer.asked
    /\ answer.kind = "text"
    /\ answer.family = 4
    /\ answer.fails
    /\ answer.text \in NotAddresses
    /\ Len(cidrs.l4) = 2
    /\ ~answer.result

\* C8 (SpecIndex): the answers of the index built from a list are those of the
\* index built from the list without its invalid lines.
C8_BadLinesSkipped == answer.asked => answer.result = answer.clean

\* C9 (SpecParse): the 39-character text of an address, read by the fixed-offset
\* path, and every other text of it, read by the general path, give the same
\* four words and the same answer of isVpn.
C9_ParsePathsAgree ==
    (history.asked /\ answer.asked /\ answer.kind \in Kinds) =>
        /\ history.fast
        /\ ~answer.fast
        /\ ~history.parts.isNull
        /\ answer.parts = history.parts
        /\ answer.result = history.result

\* ::ffff:1.2.3.4 was asked as its expanded text and as "::ffff:1.2.3.4" while
\* a list with it was loaded, and both were answered true
C9_Witness ==
    /\ history.asked
    /\ answer.asked
    /\ answer.kind = "compressedDotted"
    /\ subject = <<0, 0, 0, 0, 0, 65535, 258, 772>>
    /\ history.result
    /\ answer.result
    /\ Len(cidrs.l6) = 3

\* C10 (SpecTree): before a call of updateList of src/mod.js has loaded a list
\* to its end, isVpn returns false.
C10_FalseBeforeFirstRefresh ==
    (answer.asked /\ answer.completed = 0) => answer.result = "false"

\* C11 (SpecMerge): the result of mergeRanges32 is sorted by start with every
\* start more than one past the end before it, also for ranges that end at
\* 0xFFFFFFFF; it holds the values of the input and no other; [0,9] and
\* [10,19] give [0,19], [0,9] and [11,19] stay two ranges, and no range gives
\* no range.
C11_Merge32Invariant ==
    (answer.asked /\ ~answer.wide) =>
        /\ WellFormed(answer.merged)
        /\ Gapped(answer.merged)
        /\ SameUnion(subject, answer.merged)
        /\ subject = <<>> => answer.merged = <<>>
        /\ subject = <<Range32(<<0, 10>>, <<0, 19>>), Range32(<<0, 0>>, <<0, 9>>)>>
               => answer.merged = <<Range32(<<0, 0>>, <<0, 19>>)>>
        /\ subject = <<Range32(<<0, 11>>, <<0, 19>>), Range32(<<0, 0>>, <<0, 9>>)>>
               => answer.merged = <<Range32(<<0, 0>>, <<0, 9>>), Range32(<<0, 11>>, <<0, 19>>)>>

\* three ranges, one ending at 0xFFFFFFFF and a later start within it, were
\* merged into two
C11_Witness ==
    /\ answer.asked
    /\ ~answer.wide
    /\ subject = <<Range32(AllOnes, AllOnes), Range32(<<0, 10>>, <<0, 19>>), Range32(<<65535, 65520>>, AllOnes)>>
    /\ answer.merged = <<Range32(<<0, 10>>, <<0, 19>>), Range32(<<65535, 65520>>, AllOnes)>>

\* C12 (SpecMerge): the result of mergeRanges128 is sorted by start in unsigned
\* 128-bit order with every start more than one past the end before it, also
\* for ranges that end at ffff:ffff:ffff:ffff:ffff:ffff:ffff:ffff, and it
\* holds the values of the input ranges and no other.
C12_Merge128Invariant ==
    (answer.asked /\ answer.wide) =>
        /\ WellFormed(answer.merged)
        /\ Gapped(answer.merged)
        /\ SameUnion(subject, answer.merged)

\* C13 (SpecMerge): for mergeRanges32 and mergeRanges128, merging the result
\* again gives the result, and merging the collection together with a
\* sub-collection of it gives the result.
C13_MergeIdempotent ==
    answer.asked => (answer.again = answer.merged /\ answer.joined = answer.merged)

\* C14 (SpecRange): for an IPv4 address a and a prefix p in 0..32,
\* ipv4CidrToRange gives start = a with its low 32-p bits cleared and end = a
\* with them set, both unsigned with start <= end; p = 0 gives
\* [0, 0xFFFFFFFF], p = 32 gives [a, a], and "10.0.0.0/8" gives
\* [0x0A000000, 0x0AFFFFFF].
C14_Ipv4MaskArithmetic ==
    (answer.asked /\ Len(subject) = 2) =>
        /\ ~answer.range.isNull
        /\ Unsigned(answer.range.start) /\ Unsigned(answer.range.end)
        /\ answer.range.start = Line(subject, answer.prefix).lo
        /\ answer.range.end = Line(subject, answer.prefix).hi
        /\ LexLe(answer.range.start, answer.range.end)
        /\ answer.prefix = 0 => (answer.range.start = Zero /\ answer.range.end = AllOnes)
        /\ answer.prefix = 32 => (answer.range.start = subject /\ answer.range.end = subject)
        /\ (subject = <<2560, 0>> /\ answer.prefix = 8)
               => (answer.range.start = <<2560, 0>> /\ answer.range.end = <<2815, 65535>>)

\* "170.85.170.85/1", whose mask and start have the top bit set, gave
\* [0x80000000, 0xFFFFFFFF]
C14_Witness ==
    /\ answer.asked
    /\ subject = <<43605, 43605>>
    /\ answer.prefix = 1
    /\ answer.range.start = <<32768, 0>>
    /\ answer.range.end = AllOnes

\* C15 (SpecRange): for an IPv6 address a and a prefix p in 0..128,
\* ipv6CidrToRange gives start = a with its low 128-p bits cleared and end = a
\* with them set, every word of both an unsigned value in [0, 0xFFFFFFFF],
\* also the word that holds the prefix boundary when its top bit is 1, and
\* start <= end.
C15_Ipv6MaskArithmetic ==
    (answer.asked /\ Len(subject) = 8) =>
        /\ ~answer.range.isNull
        /\ Unsigned(GroupsOf(answer.range.start)) /\ Unsigned(GroupsOf(answer.range.end))
        /\ GroupsOf(answer.range.start) = Line(subject, answer.prefix).lo
        /\ GroupsOf(answer.range.end) = Line(subject, answer.prefix).hi
        /\ compare128(answer.range.start, answer.range.end) <= 0

\* C16 (SpecMeta): the table buildMetaTable makes for n distinct keys has a
\* capacity that is a power of two, at least 4 and at least 1.3 n, with an
\* empty slot left; metaLookup of an inserted key ends with the index of that
\* key's own descriptor, and metaLookup of a key that was not inserted ends
\* with -1, also when keys share a slot and probing wraps past the last slot.
C16_MetaLookupCorrect ==
    pc = "table" =>
        /\ PowerOfTwo(Len(history.metaTable))
        /\ Len(history.metaTable) >= 4
        /\ 10 * Len(history.metaTable) >= 13 * Len(subject)
        /\ history.metaMask = Len(history.metaTable) - 1
        /\ \E slot \in 1..Len(history.metaTable) : history.metaTable[slot] = 0
        /\ answer.asked =>
              /\ answer.idx = PositionOf(answer.p0, subject) - 1
              /\ answer.idx >= 0 =>
                    /\ history.metaKeys[answer.idx + 1] = answer.p0
                    /\ history.metaTypes[answer.idx + 1] = EntryOf(answer.p0, answer.idx + 1).type
                    /\ history.metaOffsets[answer.idx + 1] = EntryOf(answer.p0, answer.idx + 1).offset
                    /\ history.metaCounts[answer.idx + 1] = EntryOf(answer.p0, answer.idx + 1).count

\* 3, 7 and 0xFFFFFFFF all hash to the last of four slots; the third was put
\* after the wrap and was found
C16_Witness ==
    /\ pc = "table"
    /\ subject = <<<<0, 3>>, <<0, 7>>, AllOnes>>
    /\ history.metaTable = <<2, 3, 0, 1>>
    /\ answer.asked
    /\ answer.p0 = AllOnes
    /\ answer.idx = 2

\* 11 was looked up in a table of 3, 7 and 0xFFFFFFFF: probing went from the
\* last slot round to the empty one
C16_WitnessMiss ==
    /\ pc = "table"
    /\ subject = <<<<0, 3>>, <<0, 7>>, AllOnes>>
    /\ answer.asked
    /\ answer.p0 = <<0, 11>>
    /\ answer.idx = -1

\* C17 (SpecText): on the text before the first '/' or '%', ipv4ToInt fails
\* unless the text is exactly four octets, each a non-empty run of digits of
\* value at most 255, with three dots between them; ipv6ToParts fails when a
\* hex group has more than 4 digits, when a ':' that is not part of "::"
\* starts or ends the text, when "::" comes more than once, when the segments
\* do not come to 8, or when a character is not a hex digit.
C17_MalformedRejected ==
    /\ (answer.asked /\ answer.family = 4 /\ ~FourOctets(AddressPart(subject))) => answer.isNull
    /\ (answer.asked /\ answer.family = 6 /\ Malformed6(AddressPart(subject))) => answer.isNull

\* C18 (SpecInsert): whatever intervals with start <= end were inserted, in
\* whatever order, duplicates and equal starts included, query(point) is true
\* exactly when the linear scan of part_000 over the same intervals is; every
\* node's max is the largest end in its subtree and the tree is ordered by
\* start.
C18_TreeAgreesWithScan ==
    /\ MaxIsLargestEnd(itree.root)
    /\ OrderedByStart(itree.root)
    /\ IntervalsIn(itree.root) = {tlines[k] : k \in 1..tindex}
    /\ answer.asked => (answer.result = answer.scan)

\* [5,30] went to the right of [0,9] and [5,7] to the right of [5,30]; 20 is
\* above the node [0,9], within [5,30] only, and was found
C18_Witness ==
    /\ answer.asked
    /\ tindex = 3
    /\ tlines = <<Interval(0, 9), Interval(5, 30), Interval(5, 7)>>
    /\ answer.point = NumOfInt(20)
    /\ answer.result
    /\ answer.scan

====
